---- MODULE Spec2Model ----
(***************************************************************************)
(* Model of the OCR benchmark backend (ocr-benchmark/backend/app).         *)
(*                                                                         *)
(* Spec      the dispatcher of main.py on one asyncio event loop: the      *)
(*           /run-benchmark fan-out (run_benchmark, run_one), the          *)
(*           /run-ocr endpoint (run_ocr), the adapter cache, the two       *)
(*           admission semaphores and the worker-thread pool.              *)
(* SpecNorm  one dispatcher invocation as a function of its inputs: the    *)
(*           mapping an adapter returns, the defaults the dispatcher       *)
(*           merges in, billing and JSON sanitisation.                     *)
(***************************************************************************)
EXTENDS Integers, Sequences, FiniteSets, TLC

\* ------------------------------------------------------------------------
\* Bounds of the model
\* ------------------------------------------------------------------------

\* number of HTTP requests the process receives in one behaviour
MaxRequests == 2

\* number of adapter invocations that fail for an external reason (network
\* error, provider error, model failure) in one behaviour; failures the code
\* itself forces (a mime type it rejects, bytes it cannot decode) are not
\* counted against it
MaxFaults == 1

\* largest latency, in milliseconds, an adapter or the dispatcher measures
MaxLatency == 1

\* detections in one run of a local OCR engine
MaxDetections == 2

\* tokens in a freely combined token list
MaxTokens == 3

\* columns of the two-row token layouts
MaxGridCols == 9

\* lines of a text given to _clean_ocr_text
MaxCleanLines == 4

\* the largest number of retries configured with GEMINI_MAX_RETRIES
MaxRetries == 2

\* The state: the dispatcher of main.py, then the inputs and results of the
\* functions looked at one call at a time.
VARIABLES
  environ,            \* configuration present in the process environment
  upload,             \* the document the client sends (with every request)
  ADAPTER_INSTANCES,  \* _ADAPTER_INSTANCES: the models with a cached adapter
  constructed,        \* per model, how many adapter instances were constructed
  sem,                \* free permits of API_SEM ("api") and HEAVY_SEM ("heavy")
  waiters,            \* per semaphore, the tasks blocked in acquire(), in order
  ready,              \* the event loop's queue of callbacks that can run
  loopOwner,          \* the callback inside a blocking call on the loop, or <<>>
  req,                \* per request: kind, status, model (run_ocr)
  pc,                 \* per request and model: where its invocation is
  outcome,            \* per request and model: how its invocation ended
  results,            \* per request: the results mapping, key -> model
  conversions,        \* per request: PDF-to-raster conversions performed
  faults,             \* external failures injected so far
  normIn,             \* SpecNorm: the inputs of one dispatcher invocation
  normOut,            \* SpecNorm: its result
  detIn,              \* SpecLines: the engine and the detections of one run()
  detOut,             \* SpecLines: what run() made of them
  mdIn,               \* SpecMd: the text and the tokens given to postprocess_markdown
  mdOut,              \* SpecMd: the results of its functions
  cleanIn,            \* SpecClean: the text given to the _clean_ocr_text routines
  cleanOut,           \* SpecClean: per engine, what its routine made of it
  billIn,             \* SpecBill: the model and the payload given to build_billing
  billOut,            \* SpecBill: the record it returns
  retry               \* SpecRetry: one run() of a remote-API adapter

Requests == 1..MaxRequests

\* ------------------------------------------------------------------------
\* main.py: registry, engine categories, semaphores
\* ------------------------------------------------------------------------

\* the registry, in the insertion order of the dict (list(ADAPTERS.keys()))
ADAPTERS ==
  <<"easyocr", "paddleocr", "mistral", "gemini3", "gemini3pro", "trocr", "glm-ocr">>

Engines == {ADAPTERS[i] : i \in 1..Len(ADAPTERS)}

IMG_ONLY_MODELS == {"easyocr", "paddleocr", "trocr", "gemini3", "gemini3pro", "glm-ocr"}

\* API_MODELS as it would be with "mistral" left out of the set
API_MODELS_WithoutMistral == {"gemini3", "gemini3pro", "glm-ocr"}

API_MODELS == {"gemini3", "gemini3pro", "mistral", "glm-ocr"}

\* HEAVY_LOCAL_MODELS as it would be with "trocr" left out of the set
HEAVY_LOCAL_MODELS_Empty == {}

HEAVY_LOCAL_MODELS == {"trocr"}

\* initial value of asyncio.Semaphore(2)
API_SEM == 2

\* initial value of asyncio.Semaphore(1)
HEAVY_SEM == 1

\* the admission pool run_one enters for a model: "api", "heavy" or "none"
SemOf(model) ==
  IF model \in API_MODELS THEN "api"
  ELSE IF model \in HEAVY_LOCAL_MODELS THEN "heavy"
  ELSE "none"

\* where run_one executes the adapter call.  An API model is awaited through
\* adapter.run_async; no adapter of the registry overrides it, so the call is
\* OCRAdapter.run_async, whose body calls the synchronous run() directly on
\* the event loop ("loop").  The other models go through run_in_threadpool
\* ("thread").
ExecOf(model) ==
  IF model \in API_MODELS THEN "loop" ELSE "thread"

\* ------------------------------------------------------------------------
\* Uploads
\* ------------------------------------------------------------------------

\* A file name is a sequence of parts, so that a suffix test and an append
\* are computed: <<"scan", ".pdf">> is "scan.pdf".
PAGE1_SUFFIX == " (page1).png"

EndsWithPdf(filename) ==
  /\ Len(filename) > 0
  /\ filename[Len(filename)] = ".pdf"

IsImageMime(mime) == mime \in {"image/png"}

\* content: what the bytes are ("png" a decodable raster image, "pdf" a PDF
\* with at least one page, "empty" zero bytes); mime: the declared content
\* type, lower-cased; filename: the declared name.
Uploads ==
  { [content |-> "png",   mime |-> "image/png",                filename |-> <<"scan", ".png">>],
    [content |-> "pdf",   mime |-> "application/pdf",          filename |-> <<"scan", ".pdf">>],
    [content |-> "empty", mime |-> "application/pdf",          filename |-> <<"scan", ".pdf">>],
    [content |-> "pdf",   mime |-> "application/octet-stream", filename |-> <<"scan", ".pdf">>] }

\* pdf_first_page_to_png_bytes: raises RuntimeError for empty or unparseable
\* bytes ("raise"), else returns the raster of page 1 ("png")
pdf_first_page_to_png_bytes(content) ==
  IF content = "pdf" THEN "png" ELSE "raise"

\* the adapters' own _pdf_first_page_to_png_bytes (EasyOCR, PaddleOCR)
adapter_pdf_first_page_to_png_bytes(content) ==
  IF content = "pdf" THEN "png" ELSE "raise"

\* run_benchmark.run_one: what the adapter is given
EffectiveBenchmark(model, up) ==
  IF up.mime = "application/pdf" /\ model \in IMG_ONLY_MODELS
  THEN [content  |-> pdf_first_page_to_png_bytes(up.content),
        mime     |-> "image/png",
        filename |-> (IF up.filename = <<>> THEN <<"file", ".pdf">> ELSE up.filename)
                       \o <<PAGE1_SUFFIX>>]
  ELSE up

\* run_ocr: what the adapter is given
EffectiveOcr(model, up) ==
  IF up.mime = "application/pdf" /\ model \in IMG_ONLY_MODELS
  THEN [content  |-> pdf_first_page_to_png_bytes(up.content),
        mime     |-> "image/png",
        filename |-> (IF up.filename = <<>> THEN <<>> ELSE up.filename \o <<PAGE1_SUFFIX>>)]
  ELSE up

\* ------------------------------------------------------------------------
\* Adapters: construction and the part of run() that decides success
\* ------------------------------------------------------------------------

EnvKeys == {"GEMINI_API_KEY", "MISTRAL_OCR"}

\* the environments a behaviour starts in: a complete backend/.env, or none
Environments == {EnvKeys, {}}

\* the adapter constructor raises RuntimeError when its configuration is
\* missing from the environment
CtorRaises(model, env) ==
  \/ model \in {"gemini3", "gemini3pro"} /\ "GEMINI_API_KEY" \notin env
  \/ model = "mistral" /\ "MISTRAL_OCR" \notin env

\* EasyOCRAdapter.run / PaddleOCRAdapter.run convert a PDF themselves
AdapterConverts(model, eff) ==
  /\ model \in {"easyocr", "paddleocr"}
  /\ (eff.mime = "application/pdf" \/ EndsWithPdf(eff.filename))

\* the bytes the adapter finally decodes
DecodedContent(model, eff) ==
  IF AdapterConverts(model, eff)
  THEN adapter_pdf_first_page_to_png_bytes(eff.content)
  ELSE eff.content

\* run() must raise on this input: a mime type the adapter rejects, or bytes
\* PIL / fitz cannot open
MustRaise(model, eff) ==
  CASE model = "gemini3" ->
         ~(IsImageMime(eff.mime) \/ eff.mime = "application/pdf")
    [] model = "glm-ocr" ->
         \/ ~(IsImageMime(eff.mime) \/ eff.mime = "application/octet-stream")
         \/ eff.content # "png"
    [] model \in {"easyocr", "paddleocr", "trocr"} ->
         DecodedContent(model, eff) # "png"
    [] OTHER -> FALSE

\* ------------------------------------------------------------------------
\* Values of a result mapping.  A value is a record [t, v]: t is its Python
\* type, v its payload (a sequence of parts for a string, a number, a
\* sequence of values for a list or a tuple, a function for a dict).
\* ------------------------------------------------------------------------

PyStr(parts)  == [t |-> "str",      v |-> parts]
PyInt(n)      == [t |-> "int",      v |-> n]
PyFloat(n)    == [t |-> "float",    v |-> n]
NpInt(n)    == [t |-> "np_int",   v |-> n]
NpFloat(n)  == [t |-> "np_float", v |-> n]
PyNone        == [t |-> "none",     v |-> 0]
PyList(items) == [t |-> "list",     v |-> items]
PyTuple(items) == [t |-> "tuple",   v |-> items]
PyDict(f)     == [t |-> "dict",     v |-> f]

EmptyMap == [k \in {} |-> PyNone]

\* dict.setdefault(k, v)
SetDefault(m, k, v) ==
  IF k \in DOMAIN m THEN m ELSE [x \in (DOMAIN m) \cup {k} |-> IF x = k THEN v ELSE m[x]]

\* m[k] = v
SetItem(m, k, v) ==
  [x \in (DOMAIN m) \cup {k} |-> IF x = k THEN v ELSE m[x]]

\* sanitize_for_json on a value: bytes become a base64 string, a list, tuple
\* or set becomes a list, a numpy scalar its Python number, a dict is
\* rebuilt with sanitised values, anything else is returned as it is
RECURSIVE sanitize_for_json(_)
sanitize_for_json(obj) ==
  CASE obj.t = "bytes"    -> PyStr(<<"base64">> \o obj.v)
    [] obj.t = "dict"     -> PyDict([k \in DOMAIN obj.v |-> sanitize_for_json(obj.v[k])])
    [] obj.t \in {"list", "tuple", "set"} ->
                             PyList([i \in 1..Len(obj.v) |-> sanitize_for_json(obj.v[i])])
    [] obj.t = "np_int"   -> PyInt(obj.v)
    [] obj.t = "np_float" -> PyFloat(obj.v)
    [] OTHER              -> obj

\* sanitize_for_json on the result mapping itself
SanitizeResult(m) == [k \in DOMAIN m |-> sanitize_for_json(m[k])]

\* ------------------------------------------------------------------------
\* The mapping each adapter's run() returns on success.  eff is the input it
\* was given, lat the latency it measured itself (ms).  One detection / one
\* line of text stands for the recognised content.
\* ------------------------------------------------------------------------

BBOX == PyList(<<PyList(<<NpInt(0), NpInt(0)>>), PyList(<<NpInt(40), NpInt(0)>>),
               PyList(<<NpInt(40), NpInt(10)>>), PyList(<<NpInt(0), NpInt(10)>>)>>)

LlmLines == PyList(<<PyDict([text |-> PyStr(<<"Hello">>), score |-> PyNone, box |-> PyNone])>>)

\* mt = (mime_type or "").strip().lower(), "image/png" after the adapter's own
\* conversion
LocalMime(model, eff) ==
  IF AdapterConverts(model, eff) THEN "image/png" ELSE eff.mime

EasyOCRResult(eff, lat) ==
  [model              |-> PyStr(<<"easyocr">>),
   filename           |-> PyStr(eff.filename),
   mime_type          |-> PyStr(<<LocalMime("easyocr", eff)>>),
   backend_latency_ms |-> PyFloat(lat),
   latency_ms         |-> PyFloat(lat),
   raw                |-> PyList(<<PyTuple(<<BBOX, PyStr(<<"Hello">>), NpFloat(1)>>)>>),
   text               |-> PyStr(<<"Hello">>),
   lines              |-> PyList(<<PyDict([text  |-> PyStr(<<"Hello">>),
                                       score |-> PyFloat(1),
                                       bbox  |-> BBOX])>>)]

PaddleOCRResult(eff, lat) ==
  [model      |-> PyStr(<<"paddleocr">>),
   latency_ms |-> PyInt(lat),
   latency    |-> PyInt(lat),
   filename   |-> PyStr(eff.filename),
   mime_type  |-> PyStr(<<LocalMime("paddleocr", eff)>>),
   text       |-> PyStr(<<"Hello">>),
   lines      |-> PyList(<<PyDict([text  |-> PyStr(<<"Hello">>),
                               score |-> PyFloat(1),
                               box   |-> PyList(<<PyList(<<PyInt(0), PyInt(0)>>)>>)])>>),
   line_count |-> PyInt(1),
   chars      |-> PyInt(5),
   avg_conf   |-> PyFloat(1),
   raw        |-> PyDict([lines_text |-> PyList(<<PyStr(<<"Hello">>)>>),
                        boxes      |-> PyList(<<PyList(<<PyList(<<PyInt(0), PyInt(0)>>)>>)>>),
                        confs      |-> PyList(<<PyFloat(1)>>),
                        paddle_raw |-> PyList(<<PyList(<<PyList(<<BBOX,
                                         PyTuple(<<PyStr(<<"Hello">>), PyFloat(1)>>)>>)>>)>>)])]

MistralResult(eff, lat) ==
  [model              |-> PyStr(<<"mistral">>),
   filename           |-> PyStr(eff.filename),
   mime_type          |-> PyStr(<<IF eff.mime = "" THEN "image/png" ELSE eff.mime>>),
   backend_latency_ms |-> PyFloat(lat),
   latency_ms         |-> PyFloat(lat),
   raw                |-> PyDict([pages |-> PyList(<<PyDict([markdown |-> PyStr(<<"Hello">>)])>>)]),
   text               |-> PyStr(<<"Hello">>),
   lines              |-> PyList(<<>>)]

Gemini3Result(eff, lat) ==
  [model              |-> PyStr(<<"gemini3">>),
   filename           |-> PyStr(eff.filename),
   mime_type          |-> PyStr(<<eff.mime>>),
   backend_latency_ms |-> PyInt(lat),
   latency_ms         |-> PyInt(lat),
   text               |-> PyStr(<<"Hello">>),
   lines              |-> LlmLines,
   line_count         |-> PyInt(1),
   raw                |-> PyDict([candidates |-> PyList(<<>>)])]

Gemini3ProResult(eff, lat) ==
  [model              |-> PyStr(<<"gemini3pro">>),
   filename           |-> PyStr(eff.filename),
   mime_type          |-> PyStr(<<eff.mime>>),
   backend_latency_ms |-> PyFloat(lat),
   latency_ms         |-> PyFloat(lat),
   text               |-> PyStr(<<"Hello">>),
   raw                |-> PyDict([repr |-> PyStr(<<"resp">>)]),
   lines              |-> LlmLines,
   line_count         |-> PyInt(1)]

TrOCRResult(eff, lat) ==
  [model      |-> PyStr(<<"trocr">>),
   text       |-> PyStr(<<"Hello">>),
   lines      |-> LlmLines,
   avg_conf   |-> PyNone,
   raw        |-> PyDict([model_name |-> PyStr(<<"microsoft/trocr-base-printed">>),
                        device     |-> PyStr(<<"cpu">>),
                        tiles      |-> PyInt(6)]),
   latency_ms |-> PyFloat(lat)]

GLMOCRResult(eff, lat) ==
  [model              |-> PyStr(<<"glm-ocr">>),
   filename           |-> PyStr(eff.filename),
   mime_type          |-> PyStr(<<eff.mime>>),
   backend_latency_ms |-> PyInt(lat),
   latency_ms         |-> PyInt(lat),
   text               |-> PyStr(<<"Hello">>),
   lines              |-> LlmLines,
   line_count         |-> PyInt(1),
   raw                |-> PyDict([response |-> PyStr(<<"Hello">>)])]

AdapterResult(model, eff, lat) ==
  CASE model = "easyocr"    -> EasyOCRResult(eff, lat)
    [] model = "paddleocr"  -> PaddleOCRResult(eff, lat)
    [] model = "mistral"    -> MistralResult(eff, lat)
    [] model = "gemini3"    -> Gemini3Result(eff, lat)
    [] model = "gemini3pro" -> Gemini3ProResult(eff, lat)
    [] model = "trocr"      -> TrOCRResult(eff, lat)
    [] model = "glm-ocr"    -> GLMOCRResult(eff, lat)

\* ------------------------------------------------------------------------
\* billing.py.  Money is counted in millionths of a dollar, the precision
\* build_billing rounds to (round(x, 6)); a cost value PyFloat(n) is n / 10^6
\* USD.
\* ------------------------------------------------------------------------

\* CPU_PER_HOUR_USD = 0.05, in millionths of a dollar
CPU_PER_HOUR_USD == 50000

MS_PER_HOUR == 3600000

\* _env_price(name): the price set in the environment, 0.0 when the variable
\* is not set; a price that is set is 2 millionths of a dollar per token
_env_price(name) == IF name \in environ THEN 2 ELSE 0

\* a row of the price table
Pricing(in_name, out_name) ==
  [listed |-> TRUE, in |-> _env_price(in_name), out |-> _env_price(out_name)]

\* per-token prices of a model (listed: the table has a row for it); the
\* prices are read from the environment and default to 0.0
TOKEN_PRICING_USD_PER_TOKEN(model) ==
  CASE model = "mistral" ->
         Pricing("MISTRAL_USD_PER_INPUT_TOKEN", "MISTRAL_USD_PER_OUTPUT_TOKEN")
    [] model = "glm-ocr" ->
         Pricing("GLM_USD_PER_INPUT_TOKEN", "GLM_USD_PER_OUTPUT_TOKEN")
    [] model = "gemini3" ->
         Pricing("GEMINI3_USD_PER_INPUT_TOKEN", "GEMINI3_USD_PER_OUTPUT_TOKEN")
    [] model = "gemini3pro" ->
         Pricing("GEMINI3PRO_USD_PER_INPUT_TOKEN", "GEMINI3PRO_USD_PER_OUTPUT_TOKEN")
    [] model = "gpt-5.2" ->
         Pricing("GPT52_USD_PER_INPUT_TOKEN", "GPT52_USD_PER_OUTPUT_TOKEN")
    [] OTHER -> [listed |-> FALSE, in |-> 0, out |-> 0]

IsNumber(x) == x.t \in {"int", "float", "np_int", "np_float"}

\* Python truthiness of a value
Truthy(x) ==
  CASE x.t = "none" -> FALSE
    [] IsNumber(x)  -> x.v # 0
    [] x.t \in {"str", "list", "tuple"} -> Len(x.v) > 0
    [] x.t = "dict" -> DOMAIN x.v # {}
    [] OTHER        -> TRUE

\* a or b
OrElse(a, b) == IF Truthy(a) THEN a ELSE b

\* m.get(k)
Get(m, k) == IF k \in DOMAIN m THEN m[k] ELSE PyNone

_to_float(x) == IF IsNumber(x) THEN PyFloat(x.v) ELSE PyNone

\* round(numerator / denominator) to the nearest integer
RoundDiv(numerator, denominator) ==
  (2 * numerator + denominator) \div (2 * denominator)

\* the greatest common divisor of two positive integers
RECURSIVE Gcd(_, _)
Gcd(a, b) == IF b = 0 THEN a ELSE Gcd(b, a % b)

\* estimate_cost_time_usd followed by round(est, 6); the quotient
\* cpu_per_hour_usd / MS_PER_HOUR is reduced first to keep the product small
estimate_cost_time_usd(latency_ms, cpu_per_hour_usd) ==
  LET lm == _to_float(latency_ms) IN
  IF lm.t = "none" THEN PyNone
  ELSE PyFloat(RoundDiv(lm.v * (cpu_per_hour_usd \div Gcd(cpu_per_hour_usd, MS_PER_HOUR)),
                        MS_PER_HOUR \div Gcd(cpu_per_hour_usd, MS_PER_HOUR)))

compute_cost_from_tokens(model, input_tokens, output_tokens) ==
  LET pricing == TOKEN_PRICING_USD_PER_TOKEN(model)
      it == IF Truthy(_to_float(input_tokens)) THEN _to_float(input_tokens).v ELSE 0
      ot == IF Truthy(_to_float(output_tokens)) THEN _to_float(output_tokens).v ELSE 0
  IN IF ~pricing.listed THEN PyNone
     ELSE IF pricing.in = 0 /\ pricing.out = 0 THEN PyNone
     ELSE PyFloat(it * pricing.in + ot * pricing.out)

build_billing(model, payload, file_size_bytes) ==
  IF Get(payload, "billing").t = "dict" THEN payload["billing"]
  ELSE
    LET meta  == OrElse(Get(payload, "meta"), PyDict(EmptyMap)).v
        usage == OrElse(Get(payload, "usage"), PyDict(EmptyMap)).v
        latency_ms ==
          OrElse(Get(payload, "latency_ms"),
            OrElse(Get(payload, "backend_latency_ms"), Get(meta, "latency_ms")))
        input_tokens ==
          OrElse(Get(meta, "input_tokens"),
            OrElse(Get(usage, "input_tokens"), Get(usage, "prompt_tokens")))
        output_tokens ==
          OrElse(Get(meta, "output_tokens"),
            OrElse(Get(usage, "output_tokens"), Get(usage, "completion_tokens")))
        token_cost == compute_cost_from_tokens(model, input_tokens, output_tokens)
    IN IF token_cost.t # "none"
       THEN PyDict([type          |-> PyStr(<<"api_actual_tokens">>),
                    basis         |-> PyStr(<<"tokens">>),
                    currency      |-> PyStr(<<"USD">>),
                    model         |-> PyStr(<<model>>),
                    input_tokens  |-> input_tokens,
                    output_tokens |-> output_tokens,
                    cost_usd      |-> token_cost])
       ELSE PyDict([type              |-> PyStr(<<"estimated_time">>),
                    basis             |-> PyStr(<<"latency_ms">>),
                    currency          |-> PyStr(<<"USD">>),
                    model             |-> PyStr(<<model>>),
                    rate_usd_per_hour |-> PyFloat(CPU_PER_HOUR_USD),
                    cost_usd          |-> estimate_cost_time_usd(latency_ms, CPU_PER_HOUR_USD),
                    file_size_bytes   |-> PyInt(file_size_bytes),
                    note              |-> PyStr(<<"Estimated compute cost">>),
                    input_tokens      |-> input_tokens,
                    output_tokens     |-> output_tokens])

\* ------------------------------------------------------------------------
\* main.py: what the dispatcher makes of one adapter call
\* ------------------------------------------------------------------------

\* len(file_bytes) if file_bytes else 0
FileSize(content) == IF content = "empty" THEN 0 ELSE 2048

\* run_one as it would be without its except clause: the exception of the
\* adapter call leaves run_one
ExceptClause_Missing(out) == IF out = "error" THEN "raised" ELSE out

\* the `except Exception` of run_one: the exception becomes an error entry
\* ("error"); a call that returned stays "ok"
ExceptClause(out) == out

\* the entry run_one returns from its except clause
ErrorEntry(model, eff, backend_latency_ms) ==
  SanitizeResult(
    [model              |-> PyStr(<<model>>),
     filename           |-> PyStr(eff.filename),
     mime_type          |-> PyStr(<<eff.mime>>),
     error              |-> PyStr(<<"repr(e)">>),
     backend_latency_ms |-> PyInt(backend_latency_ms)])

\* the merge as it would be with plain assignments instead of setdefault
WithDefaults_Overwriting(result, model, eff, backend_latency_ms) ==
  SetItem(
    SetItem(
      SetItem(
        SetItem(result, "backend_latency_ms", PyInt(backend_latency_ms)),
        "model", PyStr(<<model>>)),
      "filename", PyStr(eff.filename)),
    "mime_type", PyStr(<<eff.mime>>))

\* the defaults run_one / run_ocr merge into the adapter's mapping
WithDefaults(result, model, eff, backend_latency_ms) ==
  SetDefault(
    SetDefault(
      SetDefault(
        SetDefault(result, "backend_latency_ms", PyInt(backend_latency_ms)),
        "model", PyStr(<<model>>)),
      "filename", PyStr(eff.filename)),
    "mime_type", PyStr(<<eff.mime>>))

\* "normalize fields", "attach billing" and the final sanitize_for_json
NormalizeResult(result, model, eff, backend_latency_ms, file_size_bytes) ==
  LET merged == WithDefaults(result, model, eff, backend_latency_ms)
  IN SanitizeResult(
       SetItem(merged, "billing", build_billing(model, merged, file_size_bytes)))

\* what run_one returns for a model: out is how adapter.run ended, lat the
\* latency the adapter measured, backend_latency_ms the dispatcher's
RunOneEntry(model, up, out, lat, backend_latency_ms) ==
  LET eff == EffectiveBenchmark(model, up) IN
  IF out = "error" THEN ErrorEntry(model, eff, backend_latency_ms)
  ELSE NormalizeResult(AdapterResult(model, eff, lat), model, eff,
                       backend_latency_ms, FileSize(up.content))

\* what run_ocr returns when adapter.run returned
RunOcrResult(model, up, lat, backend_latency_ms) ==
  LET eff == EffectiveOcr(model, up) IN
  NormalizeResult(AdapterResult(model, eff, lat), model, eff,
                  backend_latency_ms, FileSize(up.content))

\* ------------------------------------------------------------------------
\* Text.  A string is a sequence of atoms; an atom is a character (" ",
\* "\n", "|", "\\") or a run of characters that no operation here splits (a
\* word, a complete tag).  The empty string is <<>>.
\* ------------------------------------------------------------------------

Whitespace == {" ", "\n"}

RECURSIVE lstrip(_)
lstrip(s) ==
  IF s # <<>> /\ Head(s) \in Whitespace THEN lstrip(Tail(s)) ELSE s

RECURSIVE rstrip(_)
rstrip(s) ==
  IF s # <<>> /\ s[Len(s)] \in Whitespace THEN rstrip(SubSeq(s, 1, Len(s) - 1)) ELSE s

\* str.strip()
strip(s) == rstrip(lstrip(s))

\* sep.join(parts)
RECURSIVE join(_, _)
join(sep, parts) ==
  IF parts = <<>> THEN <<>>
  ELSE IF Len(parts) = 1 THEN parts[1]
  ELSE parts[1] \o sep \o join(sep, Tail(parts))

Abs(n) == IF n < 0 THEN -n ELSE n

\* ------------------------------------------------------------------------
\* postprocess_markdown.py.  A token is a record [text, x1, y1, x2, y2] with
\* integer pixel coordinates.
\* ------------------------------------------------------------------------

\* tags matched by <\s*b\s*> and <\s*/\s*b\s*> (case-insensitive)
BoldTags == {"<b>", "<B>", "< b >", "</b>", "</B>", "</ b>"}

\* tags matched only by </?[^>]+>
OtherTags == {"<i>", "</i>", "<br/>", "<b class=x>"}

\* html_to_markdown as the code has it: it turns bold tags into ** and removes
\* every other tag; it does nothing to newlines
RECURSIVE html_to_markdown(_)
html_to_markdown(text) ==
  IF text = <<>> THEN <<>>
  ELSE LET rest == html_to_markdown(Tail(text)) IN
       IF Head(text) \in BoldTags THEN <<"**">> \o rest
       ELSE IF Head(text) \in OtherTags THEN rest
       ELSE <<Head(text)>> \o rest

\* list.sort(key=...) is stable: items are records with the sort key in k
RECURSIVE InsertStable(_, _)
InsertStable(sorted, item) ==
  IF sorted = <<>> THEN <<item>>
  ELSE IF Head(sorted).k <= item.k
       THEN <<Head(sorted)>> \o InsertStable(Tail(sorted), item)
       ELSE <<item>> \o sorted

RECURSIVE SortStable(_)
SortStable(items) ==
  IF items = <<>> THEN <<>>
  ELSE InsertStable(SortStable(SubSeq(items, 1, Len(items) - 1)), items[Len(items)])

\* y_tol of tokens_to_markdown_table's call of _cluster_rows, in pixels
Y_TOL == 10

\* twice the vertical centre (y1 + y2) / 2.0 of a token
YCentre2(t) == t.y1 + t.y2

\* the loop as it would be if a token were compared with the token before it
\* instead of the anchor of its row
RECURSIVE ClusterScan_Chaining(_, _, _, _)
ClusterScan_Chaining(items, rows, cur, cur_y) ==
  IF items = <<>> THEN (IF cur # <<>> THEN Append(rows, cur) ELSE rows)
  ELSE LET it == Head(items) IN
       IF cur = <<>> THEN ClusterScan_Chaining(Tail(items), rows, <<it.tok>>, it.k)
       ELSE IF Abs(it.k - cur_y) <= 2 * Y_TOL
            THEN ClusterScan_Chaining(Tail(items), rows, Append(cur, it.tok), it.k)
            ELSE ClusterScan_Chaining(Tail(items), Append(rows, cur), <<it.tok>>, it.k)

\* the loop of _cluster_rows over the items sorted by centre: cur is the row
\* being filled (empty while cur_y is None), cur_y twice its anchor
RECURSIVE ClusterScan(_, _, _, _)
ClusterScan(items, rows, cur, cur_y) ==
  IF items = <<>> THEN (IF cur # <<>> THEN Append(rows, cur) ELSE rows)
  ELSE LET it == Head(items) IN
       IF cur = <<>> THEN ClusterScan(Tail(items), rows, <<it.tok>>, it.k)
       ELSE IF Abs(it.k - cur_y) <= 2 * Y_TOL
            THEN ClusterScan(Tail(items), rows, Append(cur, it.tok), cur_y)
            ELSE ClusterScan(Tail(items), Append(rows, cur), <<it.tok>>, it.k)

\* r.sort(key=lambda z: z[1])
SortRowByX1(row) ==
  LET sorted == SortStable([i \in 1..Len(row) |-> [k |-> row[i].x1, tok |-> row[i]]])
  IN [i \in 1..Len(sorted) |-> sorted[i].tok]

_cluster_rows(tokens) ==
  LET items == SortStable([i \in 1..Len(tokens) |-> [k |-> YCentre2(tokens[i]), tok |-> tokens[i]]])
      rows  == ClusterScan(items, <<>>, <<>>, 0)
  IN [j \in 1..Len(rows) |-> SortRowByX1(rows[j])]

\* column separation threshold of _infer_columns, in pixels
COL_SEP == 35

\* max_cols of _infer_columns
MAX_COLS == 8

RECURSIVE Flatten(_)
Flatten(rows) == IF rows = <<>> THEN <<>> ELSE Head(rows) \o Flatten(Tail(rows))

\* Column centres are kept as integers: a centre is multiplied by
\* XScale(rows) = 2^n for n tokens, which keeps every mean (a + b) / 2.0 that
\* _infer_columns can form exact.
XScale(rows) == 2 ^ Len(Flatten(rows))

\* the horizontal centre (x1 + x2) / 2.0 of a token, times scale
XCentre(t, scale) == ((t.x1 + t.x2) * scale) \div 2

\* the loop as it would be if every centre opened a column of its own
RECURSIVE ColumnScan_NoMerge(_, _, _)
ColumnScan_NoMerge(xs, cols, scale) ==
  IF xs = <<>> THEN cols
  ELSE ColumnScan_NoMerge(Tail(xs), Append(cols, Head(xs).k), scale)

\* the loop of _infer_columns over the sorted centres
RECURSIVE ColumnScan(_, _, _)
ColumnScan(xs, cols, scale) ==
  IF xs = <<>> THEN cols
  ELSE LET x    == Head(xs).k
           last == cols[Len(cols)]
       IN IF Abs(x - last) > COL_SEP * scale
          THEN ColumnScan(Tail(xs), Append(cols, x), scale)
          ELSE ColumnScan(Tail(xs), [cols EXCEPT ![Len(cols)] = (last + x) \div 2], scale)

_infer_columns(rows) ==
  LET scale == XScale(rows)
      toks  == Flatten(rows)
      xs    == SortStable([i \in 1..Len(toks) |-> [k |-> XCentre(toks[i], scale)]])
  IN IF xs = <<>> THEN <<>>
     ELSE LET cols == ColumnScan(Tail(xs), <<xs[1].k>>, scale)
          IN SubSeq(cols, 1, IF Len(cols) < MAX_COLS THEN Len(cols) ELSE MAX_COLS)

\* the choice as it would be if min() returned the last index of a nearest
\* centre
NearestColumn_Rightmost(col_centers, xc) ==
  CHOOSE j \in 1..Len(col_centers) :
    /\ \A k \in 1..Len(col_centers) : Abs(col_centers[j] - xc) <= Abs(col_centers[k] - xc)
    /\ \A k \in (j + 1)..Len(col_centers) : Abs(col_centers[k] - xc) > Abs(col_centers[j] - xc)

\* min(range(len(col_centers)), key=...): the first index of a nearest centre
NearestColumn(col_centers, xc) ==
  CHOOSE j \in 1..Len(col_centers) :
    /\ \A k \in 1..Len(col_centers) : Abs(col_centers[j] - xc) <= Abs(col_centers[k] - xc)
    /\ \A k \in 1..(j - 1) : Abs(col_centers[k] - xc) > Abs(col_centers[j] - xc)

\* the loop of _assign_to_columns over the tokens of a row
RECURSIVE AssignScan(_, _, _, _)
AssignScan(row, cells, col_centers, scale) ==
  IF row = <<>> THEN cells
  ELSE LET j == NearestColumn(col_centers, XCentre(Head(row), scale))
           c == IF cells[j] # <<>> THEN cells[j] \o <<" ">> \o Head(row).text
                ELSE Head(row).text
       IN AssignScan(Tail(row), [cells EXCEPT ![j] = c], col_centers, scale)

_assign_to_columns(row, col_centers, scale) ==
  IF col_centers = <<>>
  THEN <<strip(join(<<" ">>, [i \in 1..Len(row) |-> row[i].text]))>>
  ELSE LET cells == AssignScan(row, [k \in 1..Len(col_centers) |-> <<>>], col_centers, scale)
       IN [k \in 1..Len(cells) |-> strip(cells[k])]

\* max_used as it would be with max(max_used, i) in place of
\* max(max_used, i + 1)
MaxUsed_CountedFromZero(grid) ==
  LET used == {i \in 1..MAX_COLS : \E r \in 1..Len(grid) : i <= Len(grid[r]) /\ grid[r][i] # <<>>}
  IN IF used = {} THEN 0 ELSE (CHOOSE i \in used : \A k \in used : k <= i) - 1

\* max_used: the highest column index, counted from 1, that holds text in any
\* row of the grid; 0 when no cell holds text
MaxUsed(grid) ==
  LET used == {i \in 1..MAX_COLS : \E r \in 1..Len(grid) : i <= Len(grid[r]) /\ grid[r][i] # <<>>}
  IN IF used = {} THEN 0 ELSE CHOOSE i \in used : \A k \in used : k <= i

\* sum(1 for h in header if h)
NonEmptyCells(cells) == Cardinality({i \in 1..Len(cells) : cells[i] # <<>>})

\* header detection as it would be with half the column count rounded up
HeaderThreshold_RoundedUp(n) ==
  IF 2 > (n + 1) \div 2 THEN 2 ELSE (n + 1) \div 2

\* max(2, len(header) // 2)
HeaderThreshold(n) ==
  IF 2 > n \div 2 THEN 2 ELSE n \div 2

ColumnDigits == <<"1", "2", "3", "4", "5", "6", "7", "8">>

\* f"Col {i+1}" for the column at position i, counted from 1 here
GenericHeader(i) == <<"Col", " ", ColumnDigits[i]>>

\* s.replace("\n", " ")
RECURSIVE ReplaceNewlines(_)
ReplaceNewlines(s) ==
  IF s = <<>> THEN <<>>
  ELSE (IF Head(s) = "\n" THEN <<" ">> ELSE <<Head(s)>>) \o ReplaceNewlines(Tail(s))

\* pipe escaping as it would be if md_escape left pipes alone
EscapePipes_Unescaped(s) == s

\* s.replace("|", "\\|")
RECURSIVE EscapePipes(_)
EscapePipes(s) ==
  IF s = <<>> THEN <<>>
  ELSE (IF Head(s) = "|" THEN <<"\\", "|">> ELSE <<Head(s)>>) \o EscapePipes(Tail(s))

md_escape(s) == strip(EscapePipes(ReplaceNewlines(s)))

\* "| " + " | ".join(cells) + " |"
TableLine(cells) == <<"|", " ">> \o join(<<" ", "|", " ">>, cells) \o <<" ", "|">>

\* what tokens_to_markdown_table has when it returns "" (fewer than 2 rows,
\* or max_used <= 1)
RejectedTable == [accepted |-> FALSE, real |-> FALSE, header |-> <<>>, body |-> <<>>]

\* header detection and the choice of header and body, on the trimmed grid;
\* real: row 0 is used as the header
HeaderAndBody(grid) ==
  LET real == ~(NonEmptyCells(grid[1]) < HeaderThreshold(Len(grid[1])))
  IN [accepted |-> TRUE,
      real     |-> real,
      header   |-> IF real THEN grid[1] ELSE [i \in 1..Len(grid[1]) |-> GenericHeader(i)],
      body     |-> IF real THEN Tail(grid) ELSE grid]

\* trimming of the empty trailing columns and the acceptance test on max_used
TrimmedTable(grid) ==
  IF MaxUsed(grid) <= 1 THEN RejectedTable
  ELSE HeaderAndBody([r \in 1..Len(grid) |-> SubSeq(grid[r], 1, MaxUsed(grid))])

\* grid = [_assign_to_columns(r, col_centers) for r in rows]
GridOf(rows, col_centers) ==
  [r \in 1..Len(rows) |-> _assign_to_columns(rows[r], col_centers, XScale(rows))]

\* tokens_to_markdown_table after _cluster_rows
TableOfRows(rows) ==
  IF Len(rows) < 2 THEN RejectedTable
  ELSE TrimmedTable(GridOf(rows, _infer_columns(rows)))

\* the header and the body rows tokens_to_markdown_table renders, before
\* escaping; accepted is FALSE when it returns ""
TableParts(tokens) == TableOfRows(_cluster_rows(tokens))

\* the md list of tokens_to_markdown_table joined by newlines
RenderTable(parts) ==
  IF ~parts.accepted THEN <<>>
  ELSE join(<<"\n">>,
         <<TableLine([i \in 1..Len(parts.header) |-> md_escape(parts.header[i])]),
           TableLine([i \in 1..Len(parts.header) |-> <<"---">>])>>
         \o [r \in 1..Len(parts.body) |->
               TableLine([i \in 1..Len(parts.body[r]) |-> md_escape(parts.body[r][i])])])

tokens_to_markdown_table(tokens) == RenderTable(TableParts(tokens))

\* normalize_to_markdown once table_md is known (<<>> when there are no
\* tokens or the table is rejected)
NormalizeWithTable(text, table_md) ==
  IF table_md # <<>>
  THEN strip(html_to_markdown(text)) \o <<"\n", "\n">> \o strip(table_md)
  ELSE html_to_markdown(text)

\* normalize_to_markdown(text, tokens); tokens = <<>> stands for no tokens
\* (None or an empty list, both falsy)
normalize_to_markdown(text, tokens) ==
  NormalizeWithTable(text, IF tokens # <<>> THEN tokens_to_markdown_table(tokens) ELSE <<>>)

\* ------------------------------------------------------------------------
\* EasyOCRAdapter.run and PaddleOCRAdapter.run: from the detections of the
\* OCR library to lines, tokens and text.  A detection is a record
\* [box, text, conf]: box is the value the library gives as geometry (a list
\* of points when well formed), text a string, conf a number.
\* ------------------------------------------------------------------------

SeqMin(s) == CHOOSE m \in {s[i] : i \in 1..Len(s)} : \A i \in 1..Len(s) : m <= s[i]

SeqMax(s) == CHOOSE m \in {s[i] : i \in 1..Len(s)} : \A i \in 1..Len(s) : m >= s[i]

IsSequenceValue(x) == x.t \in {"list", "tuple"}

\* EasyOCR, the try block: p[0] and p[1] for every p of bbox, min / max, and
\* float() all succeed exactly when bbox is a non-empty sequence of sequences
\* with at least two leading numbers; anything else raises inside the try
EasyBoxParses(bbox) ==
  /\ IsSequenceValue(bbox)
  /\ Len(bbox.v) > 0
  /\ \A i \in 1..Len(bbox.v) :
       /\ IsSequenceValue(bbox.v[i])
       /\ Len(bbox.v[i].v) >= 2
       /\ IsNumber(bbox.v[i].v[1])
       /\ IsNumber(bbox.v[i].v[2])

\* the token (txt, x1, y1, x2, y2) built from parsed points
TokenOf(txt, points) ==
  LET xs == [i \in 1..Len(points) |-> points[i].v[1].v]
      ys == [i \in 1..Len(points) |-> points[i].v[2].v]
  IN [text |-> txt, x1 |-> SeqMin(xs), y1 |-> SeqMin(ys),
      x2 |-> SeqMax(xs), y2 |-> SeqMax(ys)]

\* EasyOCRAdapter.run, the loop over results: acc is [lines, chunks, tokens]
RECURSIVE EasyScan(_, _)
EasyScan(dets, acc) ==
  IF dets = <<>> THEN acc
  ELSE LET d   == Head(dets)
           txt == strip(d.text)
       IN IF txt = <<>> THEN EasyScan(Tail(dets), acc)
          ELSE EasyScan(Tail(dets),
                 [lines  |-> Append(acc.lines,
                               PyDict([text  |-> PyStr(txt),
                                       score |-> PyFloat(d.conf.v),
                                       bbox  |-> d.box])),
                  chunks |-> Append(acc.chunks, txt),
                  tokens |-> IF EasyBoxParses(d.box)
                             THEN Append(acc.tokens, TokenOf(txt, d.box.v))
                             ELSE acc.tokens])

EmptyScan == [lines |-> <<>>, chunks |-> <<>>, tokens |-> <<>>]

\* what run() has after the loop and normalize_to_markdown
Extracted(acc) ==
  [status |-> "ok",
   lines  |-> PyList(acc.lines),
   tokens |-> acc.tokens,
   text   |-> normalize_to_markdown(strip(join(<<"\n">>, acc.chunks)), acc.tokens)]

ExtractionRaised == [status |-> "raised", lines |-> PyList(<<>>), tokens |-> <<>>, text |-> <<>>]

EasyOCRExtract(dets) == Extracted(EasyScan(dets, EmptyScan))

\* PaddleOCR: the points of box the loop keeps (lists or tuples of length 2)
PaddleKeptPoints(box) ==
  IF box.t # "list" THEN <<>>
  ELSE SelectSeq(box.v, LAMBDA pt : IsSequenceValue(pt) /\ Len(pt.v) = 2)

\* int(pt[0]) or int(pt[1]) raises for a kept point
PaddleIntRaises(box) ==
  \E i \in 1..Len(PaddleKeptPoints(box)) :
    \/ ~IsNumber(PaddleKeptPoints(box)[i].v[1])
    \/ ~IsNumber(PaddleKeptPoints(box)[i].v[2])

\* pts: [[int(pt[0]), int(pt[1])], ...]
PaddlePts(box) ==
  LET kept == PaddleKeptPoints(box)
  IN [i \in 1..Len(kept) |-> PyList(<<PyInt(kept[i].v[1].v), PyInt(kept[i].v[2].v)>>)]

\* PaddleOCRAdapter.run, the loop over page0; the conversion of the points
\* comes before the test of the text, outside any try
RECURSIVE PaddleScan(_, _)
PaddleScan(dets, acc) ==
  IF dets = <<>> THEN acc
  ELSE LET d    == Head(dets)
           text == strip(d.text)
       IN IF PaddleIntRaises(d.box) THEN [acc EXCEPT !.raised = TRUE]
          ELSE IF text = <<>> THEN PaddleScan(Tail(dets), acc)
          ELSE LET pts == PaddlePts(d.box) IN
               PaddleScan(Tail(dets),
                 [raised |-> FALSE,
                  lines  |-> Append(acc.lines,
                               PyDict([text  |-> PyStr(text),
                                       score |-> PyFloat(d.conf.v),
                                       box   |-> IF pts # <<>> THEN PyList(pts) ELSE PyNone])),
                  chunks |-> Append(acc.chunks, text),
                  tokens |-> IF pts # <<>> THEN Append(acc.tokens, TokenOf(text, pts))
                             ELSE acc.tokens])

PaddleOCRExtract(dets) ==
  LET acc == PaddleScan(dets, [raised |-> FALSE, lines |-> <<>>, chunks |-> <<>>, tokens |-> <<>>])
  IN IF acc.raised THEN ExtractionRaised ELSE Extracted(acc)

\* ------------------------------------------------------------------------
\* _clean_ocr_text of the gemini3, gemini3pro and glm-ocr adapters.  The
\* atoms of these texts are the fence marker (three backquotes), the characters " ", "\n"
\* and ":", and words.
\* ------------------------------------------------------------------------

\* the atom that stands for a run of three backquotes
FENCE == "<fence>"

\* words made of letters only (str.isalpha)
AlphaWords ==
  {"Hello", "World", "Invoice", "Total", "Acknowledgement", "Output", "output", "result",
   "extracted", "text", "here", "is", "the", "ocr", "markdown", "Markdown", "json"}

\* words matched by \w+ : letters and digits
WordAtoms == AlphaWords \cup {"12"}

\* len() of one atom, in characters
CharLen(a) ==
  CASE a \in {" ", "\n", ":", "|"} -> 1
    [] a \in {"12", "is"} -> 2
    [] a \in {FENCE, "the", "ocr"} -> 3
    [] a \in {"text", "here", "json"} -> 4
    [] a \in {"Hello", "World", "Total"} -> 5
    [] a \in {"Output", "output", "result"} -> 6
    [] a = "Invoice" -> 7
    [] a \in {"markdown", "Markdown"} -> 8
    [] a = "extracted" -> 9
    [] a = "Acknowledgement" -> 15
    [] OTHER -> 1

\* len(s)
RECURSIVE StrLen(_)
StrLen(s) == IF s = <<>> THEN 0 ELSE CharLen(Head(s)) + StrLen(Tail(s))

\* str.lower of one atom
LowerAtom(a) ==
  CASE a = "Hello" -> "hello"
    [] a = "World" -> "world"
    [] a = "Invoice" -> "invoice"
    [] a = "Total" -> "total"
    [] a = "Acknowledgement" -> "acknowledgement"
    [] a = "Output" -> "output"
    [] a = "Markdown" -> "markdown"
    [] OTHER -> a

\* s.lower()
lower(s) == [i \in 1..Len(s) |-> LowerAtom(s[i])]

\* s.isalpha(): not empty and letters only
isalpha(s) == s # <<>> /\ \A i \in 1..Len(s) : s[i] \in AlphaWords

\* s.rstrip(":")
RECURSIVE rstrip_colon(_)
rstrip_colon(s) ==
  IF s # <<>> /\ s[Len(s)] = ":" THEN rstrip_colon(SubSeq(s, 1, Len(s) - 1)) ELSE s

\* s.split(sep) for a one-atom separator: the pieces between the separators
RECURSIVE SplitScan(_, _, _)
SplitScan(s, sep, cur) ==
  IF s = <<>> THEN <<cur>>
  ELSE IF Head(s) = sep THEN <<cur>> \o SplitScan(Tail(s), sep, <<>>)
  ELSE SplitScan(Tail(s), sep, Append(cur, Head(s)))

split(s, sep) == SplitScan(s, sep, <<>>)

\* s.splitlines(): no line for an empty string, none after a final newline
splitlines(s) ==
  IF s = <<>> THEN <<>>
  ELSE IF s[Len(s)] = "\n" THEN SubSeq(split(s, "\n"), 1, Len(split(s, "\n")) - 1)
  ELSE split(s, "\n")

\* s.replace(fence, "")
RemoveFences(s) == SelectSeq(s, LAMBDA a : a # FENCE)

\* max(parts, key=len): the first of the longest parts
MaxByLen(parts) ==
  parts[CHOOSE i \in 1..Len(parts) :
          /\ \A k \in 1..Len(parts) : StrLen(parts[k]) <= StrLen(parts[i])
          /\ \A k \in 1..(i - 1) : StrLen(parts[k]) < StrLen(parts[i])]

\* the bare labels dropped by every cleanup
JunkLabels == {<<"markdown">>, <<"json">>, <<"text">>}

\* the preface phrases
Prefaces ==
  { <<"here", " ", "is", " ", "the", " ", "extracted", " ", "text">>,
    <<"extracted", " ", "text">>,
    <<"ocr", " ", "output">>,
    <<"output">>,
    <<"result">> }

\* t.lower() in junk and len(t) <= 12, t the stripped line
IsJunkLabel(ln) == lower(strip(ln)) \in JunkLabels /\ StrLen(strip(ln)) <= 12

\* ln.strip().lower().rstrip(":") in prefixes
IsPreface(ln) == rstrip_colon(lower(strip(ln))) \in Prefaces

\* [ln.rstrip() for ln in lines]
RstripAll(lines) == [i \in 1..Len(lines) |-> rstrip(lines[i])]

\* parts[1:-1]
Inner(parts) == SubSeq(parts, 2, Len(parts) - 1)

\* a cleanup's result: chosen is the text it goes on with after looking for
\* fenced blocks (before a language marker is dropped), out what it returns
Cleaned(chosen, out) == [chosen |-> chosen, out |-> out]

\* gemini3: the text after the fence step, from the longest of parts[1:-1]
Gemini3AfterMarker(middle, middle_lines) ==
  IF middle_lines # <<>> /\ isalpha(strip(middle_lines[1]))
  THEN strip(join(<<"\n">>, Tail(middle_lines)))
  ELSE middle

\* gemini3: while lines and lines[0] ... in prefixes: lines = lines[1:]
RECURSIVE DropLeadingPrefaces(_)
DropLeadingPrefaces(lines) ==
  IF lines # <<>> /\ IsPreface(Head(lines)) THEN DropLeadingPrefaces(Tail(lines))
  ELSE lines

\* gemini3: the label loop, the preface loop and the final join, on the text
\* left by the fence step
Gemini3Lines(s) ==
  strip(join(<<"\n">>,
    DropLeadingPrefaces(
      RstripAll(SelectSeq(splitlines(s), LAMBDA ln : ~IsJunkLabel(ln))))))

Gemini3Chosen(s, parts) ==
  IF FENCE \in {s[i] : i \in 1..Len(s)} /\ Len(parts) >= 3
  THEN strip(MaxByLen(Inner(parts)))
  ELSE s

Gemini3From(s, chosen, fenced) ==
  Cleaned(chosen,
          Gemini3Lines(strip(RemoveFences(
            IF fenced THEN Gemini3AfterMarker(chosen, splitlines(chosen)) ELSE s))))

Gemini3Stripped(s) ==
  Gemini3From(s, Gemini3Chosen(s, split(s, FENCE)), Len(split(s, FENCE)) >= 3)

\* _clean_ocr_text of gemini3_adapter.py
Gemini3Clean(s) ==
  IF s = <<>> THEN Cleaned(<<>>, <<>>) ELSE Gemini3Stripped(strip(s))

\* gemini3pro: the optional language marker has at most 12 characters
Gemini3ProAfterMarker(middle, middle_lines) ==
  IF /\ middle_lines # <<>>
     /\ StrLen(strip(middle_lines[1])) <= 12
     /\ isalpha(strip(middle_lines[1]))
  THEN strip(join(<<"\n">>, Tail(middle_lines)))
  ELSE middle

\* gemini3pro: the loop over enumerate(lines); a line is kept (TRUE) or not
Gemini3ProKeeps(lines, i) ==
  \/ strip(lines[i]) = <<>>
  \/ /\ ~(i = 1 /\ IsPreface(lines[i]))
     /\ ~(rstrip_colon(lower(strip(lines[i]))) \in JunkLabels /\ StrLen(strip(lines[i])) <= 12)

Gemini3ProLines(lines) ==
  strip(join(<<"\n">>,
    [k \in 1..Cardinality({i \in 1..Len(lines) : Gemini3ProKeeps(lines, i)}) |->
       rstrip(lines[CHOOSE i \in 1..Len(lines) :
                /\ Gemini3ProKeeps(lines, i)
                /\ Cardinality({j \in 1..i : Gemini3ProKeeps(lines, j)}) = k])]))

Gemini3ProFrom(s, chosen, fenced) ==
  Cleaned(chosen,
          Gemini3ProLines(RstripAll(splitlines(
            IF fenced THEN Gemini3ProAfterMarker(chosen, splitlines(chosen)) ELSE s))))

Gemini3ProStripped(s) ==
  Gemini3ProFrom(s, Gemini3Chosen(s, split(s, FENCE)), Len(split(s, FENCE)) >= 3)

\* _clean_ocr_text of gemini3pro_adapter.py
Gemini3ProClean(s) ==
  IF s = <<>> THEN Cleaned(<<>>, <<>>) ELSE Gemini3ProStripped(strip(s))

\* glm-ocr: one capture of the pattern fence (?:\w+)?\s*([\s\S]*?)\s* fence from the text
\* between an opening and its closing fence, then b.strip()
GlmCapture(between) ==
  strip(IF between # <<>> /\ Head(between) \in WordAtoms THEN Tail(between) ELSE between)

\* glm-ocr: re.findall: the fences pair up from the left, parts being the
\* pieces of the text between fences
GlmBlocks(parts) ==
  [k \in 1..((Len(parts) - 1) \div 2) |-> GlmCapture(parts[2 * k])]

\* glm-ocr: the line loop and the final join
GlmLines(s) ==
  strip(join(<<"\n">>,
    SelectSeq(RstripAll(splitlines(s)),
              LAMBDA ln : strip(ln) # <<>> /\ ~IsJunkLabel(ln) /\ ~IsPreface(ln))))

GlmChosen(s, blocks) ==
  IF blocks # <<>>
  THEN strip(join(<<"\n">>, SelectSeq(blocks, LAMBDA b : b # <<>>)))
  ELSE s

GlmFrom(chosen) == Cleaned(chosen, GlmLines(strip(RemoveFences(chosen))))

\* _clean_ocr_text of glmocr_adapter.py
GlmClean(s) == GlmFrom(GlmChosen(strip(s), GlmBlocks(split(strip(s), FENCE))))

\* ------------------------------------------------------------------------
\* State
\* ------------------------------------------------------------------------

schedVars ==
  <<environ, upload, ADAPTER_INSTANCES, constructed, sem, waiters, ready, loopOwner,
    req, pc, outcome, results, conversions, faults>>

restVars == <<cleanIn, cleanOut, billIn, billOut, retry>>

pureVars == <<detIn, detOut, mdIn, mdOut, restVars>>

normVars == <<normIn, normOut, pureVars>>

DetIdle == [status |-> "none", lines |-> PyList(<<>>), tokens |-> <<>>, text |-> <<>>]

NoDetections == [engine |-> "", dets |-> <<>>]

NoMdInput == [text |-> <<>>, tokens |-> <<>>]

MdIdle ==
  [done |-> {}, rows |-> <<>>, cols |-> <<>>, grid |-> <<>>, table |-> <<>>, md |-> <<>>]

CleanIdle == [e \in {} |-> Cleaned(<<>>, <<>>)]

NoBillInput == [model |-> "", payload |-> EmptyMap]

BillIdle == [status |-> "none", billing |-> PyNone]

\* no exception raised
NoError == [type |-> "", cause |-> "none", elapsed |-> FALSE]

RetryIdle ==
  [engine |-> "", mime |-> "", max_retries |-> 0, pc |-> "idle", attempt |-> 0,
   outcomes |-> <<>>, sleeps |-> <<>>, last_err |-> "none", error |-> NoError]

RestIdle ==
  /\ cleanIn = <<>>
  /\ cleanOut = CleanIdle
  /\ billIn = NoBillInput
  /\ billOut = BillIdle
  /\ retry = RetryIdle

vars == <<schedVars, normVars>>

NoResults == [k \in {} |-> ""]

IdleRequest == [kind |-> "none", st |-> "idle", model |-> ""]

SchedStart ==
  /\ ADAPTER_INSTANCES = {}
  /\ constructed = [e \in Engines |-> 0]
  /\ sem = [api |-> API_SEM, heavy |-> HEAVY_SEM]
  /\ waiters = [api |-> <<>>, heavy |-> <<>>]
  /\ ready = <<>>
  /\ loopOwner = <<>>
  /\ req = [r \in Requests |-> IdleRequest]
  /\ pc = [r \in Requests |-> [e \in Engines |-> "none"]]
  /\ outcome = [r \in Requests |-> [e \in Engines |-> "none"]]
  /\ results = [r \in Requests |-> NoResults]
  /\ conversions = [r \in Requests |-> 0]
  /\ faults = 0

SchedInit ==
  /\ environ \in Environments
  /\ upload \in Uploads
  /\ SchedStart

\* ------------------------------------------------------------------------
\* Helpers of the scheduling model
\* ------------------------------------------------------------------------

\* the callback the loop runs next
LoopFree == loopOwner = <<>>

NextIs(cb) == LoopFree /\ ready # <<>> /\ Head(ready) = cb

\* the input the adapter of an invocation receives
EffectiveOf(r, e) ==
  IF req[r].kind = "ocr" THEN EffectiveOcr(e, upload)
  ELSE EffectiveBenchmark(e, upload)

\* the outcomes adapter.run can have on this input, and what each costs of
\* the fault budget
AdapterOutcomes(r, e) ==
  IF MustRaise(e, EffectiveOf(r, e)) THEN {"error"}
  ELSE IF faults < MaxFaults THEN {"ok", "error"}
  ELSE {"ok"}

FaultsAfter(r, e, out) ==
  IF out = "error" /\ ~MustRaise(e, EffectiveOf(r, e)) THEN faults + 1 ELSE faults

\* conversions the adapter itself performs during run()
ConversionsAfter(r, e) ==
  IF /\ AdapterConverts(e, EffectiveOf(r, e))
     /\ adapter_pdf_first_page_to_png_bytes(EffectiveOf(r, e).content) # "raise"
  THEN [conversions EXCEPT ![r] = @ + 1]
  ELSE conversions

\* asyncio.gather(*(run_one(m) for m in models)) without return_exceptions:
\* the awaiting handler is resumed when the first task raises, or when all
\* tasks have returned.  newOutcome is outcome after the task that just ended.
GatherNotifies(r, e, newPc, newOutcome) ==
  \/ /\ newOutcome[r][e] = "raised"
     /\ \A o \in Engines \ {e} : newOutcome[r][o] # "raised"
  \/ /\ \A o \in Engines : newPc[r][o] = "done" /\ newOutcome[r][o] # "raised"

Notify(r, e, newPc, newOutcome) ==
  IF GatherNotifies(r, e, newPc, newOutcome) THEN <<(<<r, "resume">>)>> ELSE <<>>

\* the results mapping run_benchmark builds from results_list, in registry
\* order: results[r.get("model", "unknown")] = r.  The value kept here is the
\* model whose entry sits under the key.
EntryKey(e, out) ==
  LET entry == RunOneEntry(e, upload, out, 0, 0) IN
  IF "model" \in DOMAIN entry THEN entry["model"].v[1] ELSE "unknown"

RECURSIVE BuildResults(_, _, _)
BuildResults(i, outs, acc) ==
  IF i > Len(ADAPTERS) THEN acc
  ELSE LET e == ADAPTERS[i]
           k == EntryKey(e, outs[e])
       IN BuildResults(i + 1, outs,
            [x \in (DOMAIN acc) \cup {k} |-> IF x = k THEN e ELSE acc[x]])

\* ------------------------------------------------------------------------
\* asyncio.Semaphore, as the standard library documents it: acquire() takes a
\* permit when the counter is positive and otherwise waits; release() adds one
\* to the counter and wakes the first waiter, which then takes the permit
\* when it runs (and waits again if the permit is gone by then).
\* ------------------------------------------------------------------------

\* `async with SEM` entered by task <<r, e>>, then the adapter call begins
Admit(r, e, restOfQueue) ==
  LET s == SemOf(e) IN
  IF s # "none" /\ sem[s] = 0
  THEN \* acquire() blocks
       /\ waiters' = [waiters EXCEPT ![s] = Append(@, <<r, e>>)]
       /\ pc' = [pc EXCEPT ![r][e] = "waitsem"]
       /\ ready' = restOfQueue
       /\ UNCHANGED <<sem, loopOwner>>
  ELSE /\ sem' = IF s = "none" THEN sem ELSE [sem EXCEPT ![s] = @ - 1]
       /\ UNCHANGED waiters
       /\ ready' = restOfQueue
       /\ IF ExecOf(e) = "loop"
          THEN \* await adapter.run_async(...): run() executes on the loop
               /\ pc' = [pc EXCEPT ![r][e] = "blocking"]
               /\ loopOwner' = <<r, e>>
          ELSE \* await run_in_threadpool(lambda: adapter.run(...))
               /\ pc' = [pc EXCEPT ![r][e] = "thread"]
               /\ UNCHANGED loopOwner

\* leaving the semaphore as it would be if the permit were never given back
SemAfterRelease_Leaking(e) == sem

\* the semaphore state after `async with` is left by a task of model e
SemAfterRelease(e) ==
  IF SemOf(e) = "none" THEN sem ELSE [sem EXCEPT ![SemOf(e)] = @ + 1]

WaitersAfterRelease(e) ==
  IF SemOf(e) = "none" \/ waiters[SemOf(e)] = <<>> THEN waiters
  ELSE [waiters EXCEPT ![SemOf(e)] = Tail(@)]

\* the waiter release() wakes, as a queue of at most one callback
Woken(e) ==
  IF SemOf(e) = "none" \/ waiters[SemOf(e)] = <<>> THEN <<>>
  ELSE <<Head(waiters[SemOf(e)])>>

PcAfterRelease(r, e) ==
  LET w == Woken(e)
      p == [pc EXCEPT ![r][e] = "done"]
  IN IF w = <<>> THEN p ELSE [p EXCEPT ![w[1][1]][w[1][2]] = "woken"]

\* ------------------------------------------------------------------------
\* Actions of Spec
\* ------------------------------------------------------------------------

\* a request reaches the process; its handler is queued once the body is read
Arrive(r) ==
  /\ req[r].st = "idle"
  /\ IF r = 1 THEN TRUE ELSE req[r - 1].st # "idle"
  /\ \E kind \in {"benchmark", "ocr"} :
       \E m \in (IF kind = "ocr" THEN Engines ELSE {""}) :
         req' = [req EXCEPT ![r] = [kind |-> kind, st |-> "queued", model |-> m]]
  /\ ready' = Append(ready, <<r, "handler">>)
  /\ UNCHANGED <<environ, upload, ADAPTER_INSTANCES, constructed, sem, waiters, loopOwner,
                 pc, outcome, results, conversions, faults, normVars>>

\* run_benchmark up to `await asyncio.gather(...)`: the PDF is converted once,
\* outside any try, then one task per registered model is created
BenchmarkStart(r) ==
  /\ NextIs(<<r, "handler">>)
  /\ req[r].kind = "benchmark"
  /\ IF /\ upload.mime = "application/pdf"
        /\ pdf_first_page_to_png_bytes(upload.content) = "raise"
     THEN /\ req' = [req EXCEPT ![r].st = "raised"]
          /\ ready' = Tail(ready)
          /\ UNCHANGED <<pc, conversions>>
     ELSE /\ req' = [req EXCEPT ![r].st = "running"]
          /\ conversions' =
               IF upload.mime = "application/pdf"
               THEN [conversions EXCEPT ![r] = @ + 1] ELSE conversions
          /\ pc' = [pc EXCEPT ![r] = [e \in Engines |-> "ready"]]
          /\ ready' = Tail(ready) \o [i \in 1..Len(ADAPTERS) |-> <<r, ADAPTERS[i]>>]
  /\ UNCHANGED <<environ, upload, ADAPTER_INSTANCES, constructed, sem, waiters, loopOwner,
                 outcome, results, faults, normVars>>

\* run_one from its first line to its first suspension: get_adapter_instance
\* (outside the try), then the branch for the model's category
TaskStart(r, e) ==
  /\ NextIs(<<r, e>>)
  /\ pc[r][e] = "ready"
  /\ IF e \notin ADAPTER_INSTANCES /\ CtorRaises(e, environ)
     THEN \* ADAPTERS[model]() raises: nothing is cached, run_one raises
          LET newPc == [pc EXCEPT ![r][e] = "done"]
              newOut == [outcome EXCEPT ![r][e] = "raised"]
          IN /\ pc' = newPc
             /\ outcome' = newOut
             /\ ready' = Tail(ready) \o Notify(r, e, newPc, newOut)
             /\ UNCHANGED <<ADAPTER_INSTANCES, constructed, sem, waiters, loopOwner>>
     ELSE /\ ADAPTER_INSTANCES' = ADAPTER_INSTANCES \cup {e}
          /\ constructed' =
               IF e \in ADAPTER_INSTANCES THEN constructed
               ELSE [constructed EXCEPT ![e] = @ + 1]
          /\ Admit(r, e, Tail(ready))
          /\ UNCHANGED outcome
  /\ UNCHANGED <<environ, upload, req, results, conversions, faults, normVars>>

\* a task woken by release() runs again inside acquire()
TaskWoken(r, e) ==
  /\ NextIs(<<r, e>>)
  /\ pc[r][e] = "woken"
  /\ Admit(r, e, Tail(ready))
  /\ UNCHANGED <<environ, upload, ADAPTER_INSTANCES, constructed, req, outcome, results,
                 conversions, faults, normVars>>

\* adapter.run returns or raises in its worker thread; the loop need not be free
ThreadFinish(r, e) ==
  /\ pc[r][e] = "thread"
  /\ \E out \in AdapterOutcomes(r, e) :
       /\ outcome' = [outcome EXCEPT ![r][e] = out]
       /\ faults' = FaultsAfter(r, e, out)
  /\ pc' = [pc EXCEPT ![r][e] = "threaddone"]
  /\ conversions' = ConversionsAfter(r, e)
  /\ ready' = Append(ready, <<r, e>>)
  /\ UNCHANGED <<environ, upload, ADAPTER_INSTANCES, constructed, sem, waiters, loopOwner,
                 req, results, normVars>>

\* run_one resumed after run_in_threadpool: the semaphore is left, the result
\* or the exception becomes the task's entry
TaskAfterThread(r, e) ==
  /\ NextIs(<<r, e>>)
  /\ pc[r][e] = "threaddone"
  /\ sem' = SemAfterRelease(e)
  /\ waiters' = WaitersAfterRelease(e)
  /\ pc' = PcAfterRelease(r, e)
  /\ LET newOut == [outcome EXCEPT ![r][e] = ExceptClause(@)] IN
     /\ outcome' = newOut
     /\ ready' = Tail(ready) \o Woken(e) \o Notify(r, e, PcAfterRelease(r, e), newOut)
  /\ UNCHANGED <<environ, upload, ADAPTER_INSTANCES, constructed, loopOwner, req,
                 results, conversions, faults, normVars>>

\* the blocking adapter.run of an API model returns or raises; run_one goes on
\* to its return without suspending
ApiReturn(r, e) ==
  /\ loopOwner = <<r, e>>
  /\ pc[r][e] = "blocking"
  /\ \E out \in AdapterOutcomes(r, e) :
       LET newOut == [outcome EXCEPT ![r][e] = ExceptClause(out)] IN
       /\ outcome' = newOut
       /\ faults' = FaultsAfter(r, e, out)
       /\ ready' = ready \o Woken(e) \o Notify(r, e, PcAfterRelease(r, e), newOut)
  /\ sem' = SemAfterRelease(e)
  /\ waiters' = WaitersAfterRelease(e)
  /\ pc' = PcAfterRelease(r, e)
  /\ loopOwner' = <<>>
  /\ conversions' = ConversionsAfter(r, e)
  /\ UNCHANGED <<environ, upload, ADAPTER_INSTANCES, constructed, req, results, normVars>>

\* run_benchmark resumed by gather: an exception of a task leaves the handler,
\* otherwise the results mapping is built and returned
GatherResume(r) ==
  /\ NextIs(<<r, "resume">>)
  /\ IF \E e \in Engines : outcome[r][e] = "raised"
     THEN /\ req' = [req EXCEPT ![r].st = "raised"]
          /\ UNCHANGED results
     ELSE /\ req' = [req EXCEPT ![r].st = "returned"]
          /\ results' = [results EXCEPT ![r] = BuildResults(1, outcome[r], NoResults)]
  /\ ready' = Tail(ready)
  /\ UNCHANGED <<environ, upload, ADAPTER_INSTANCES, constructed, sem, waiters, loopOwner,
                 pc, outcome, conversions, faults, normVars>>

\* run_ocr up to the adapter call: a fresh adapter_class(), the conversion,
\* then adapter.run(...) called directly in the coroutine
OcrStart(r) ==
  /\ NextIs(<<r, "handler">>)
  /\ req[r].kind = "ocr"
  /\ LET m == req[r].model IN
     IF \/ CtorRaises(m, environ)
        \/ /\ upload.mime = "application/pdf" /\ m \in IMG_ONLY_MODELS
           /\ pdf_first_page_to_png_bytes(upload.content) = "raise"
     THEN /\ req' = [req EXCEPT ![r].st = "raised"]
          /\ constructed' =
               IF CtorRaises(m, environ) THEN constructed
               ELSE [constructed EXCEPT ![m] = @ + 1]
          /\ ready' = Tail(ready)
          /\ UNCHANGED <<pc, loopOwner, conversions>>
     ELSE /\ req' = [req EXCEPT ![r].st = "running"]
          /\ constructed' = [constructed EXCEPT ![m] = @ + 1]
          /\ conversions' =
               IF upload.mime = "application/pdf" /\ m \in IMG_ONLY_MODELS
               THEN [conversions EXCEPT ![r] = @ + 1] ELSE conversions
          /\ pc' = [pc EXCEPT ![r][m] = "blocking"]
          /\ loopOwner' = <<r, "handler">>
          /\ ready' = Tail(ready)
  /\ UNCHANGED <<environ, upload, ADAPTER_INSTANCES, sem, waiters, outcome, results,
                 faults, normVars>>

\* run_ocr after the adapter call: the normalised result is returned, or the
\* exception becomes HTTPException(500)
OcrReturn(r) ==
  /\ loopOwner = <<r, "handler">>
  /\ LET m == req[r].model IN
     /\ \E out \in AdapterOutcomes(r, m) :
          /\ outcome' = [outcome EXCEPT ![r][m] = out]
          /\ faults' = FaultsAfter(r, m, out)
          /\ req' = [req EXCEPT ![r].st = IF out = "ok" THEN "returned" ELSE "raised"]
     /\ pc' = [pc EXCEPT ![r][m] = "done"]
     /\ conversions' = ConversionsAfter(r, m)
  /\ loopOwner' = <<>>
  /\ UNCHANGED <<environ, upload, ADAPTER_INSTANCES, constructed, sem, waiters, ready,
                 results, normVars>>

\* ------------------------------------------------------------------------
\* SpecNorm: one dispatcher invocation
\* ------------------------------------------------------------------------

NormIdle == [status |-> "none", entry |-> EmptyMap]

NoInput ==
  [endpoint |-> "none", model |-> "", up |-> CHOOSE u \in Uploads : TRUE,
   out |-> "", lat |-> 0, backend_latency_ms |-> 0]

\* the conversion the dispatcher performs before the adapter call raises
DispatcherConversionRaises(endpoint, model, up) ==
  /\ up.mime = "application/pdf"
  /\ endpoint = "benchmark" \/ model \in IMG_ONLY_MODELS
  /\ pdf_first_page_to_png_bytes(up.content) = "raise"

\* the invocations that reach adapter.run, with the outcomes run can have and
\* the latencies the two clocks can show (the adapter's interval lies inside
\* the dispatcher's)
NormInputs ==
  { i \in [endpoint : {"benchmark", "ocr"}, model : Engines, up : Uploads,
           out : {"ok", "error"}, lat : 0..MaxLatency,
           backend_latency_ms : 0..MaxLatency] :
      /\ i.lat <= i.backend_latency_ms
      /\ ~DispatcherConversionRaises(i.endpoint, i.model, i.up)
      /\ i.out = "ok" =>
           ~MustRaise(i.model,
                      IF i.endpoint = "ocr" THEN EffectiveOcr(i.model, i.up)
                      ELSE EffectiveBenchmark(i.model, i.up)) }

PureIdle ==
  /\ detIn = NoDetections
  /\ detOut = DetIdle
  /\ mdIn = NoMdInput
  /\ mdOut = MdIdle
  /\ RestIdle

NormInit ==
  /\ normIn \in NormInputs
  /\ normOut = NormIdle
  /\ PureIdle
  /\ environ = EnvKeys
  /\ upload = normIn.up
  /\ SchedStart

\* run_one of /run-benchmark, from the adapter call to its return
NormRunOne ==
  /\ normIn.endpoint = "benchmark"
  /\ normOut.status = "none"
  /\ normOut' =
       [status |-> "entry",
        entry  |-> RunOneEntry(normIn.model, normIn.up, ExceptClause(normIn.out),
                               normIn.lat, normIn.backend_latency_ms)]
  /\ UNCHANGED <<schedVars, normIn, pureVars>>

\* run_ocr, from the adapter call to its return or its HTTPException
NormRunOcr ==
  /\ normIn.endpoint = "ocr"
  /\ normOut.status = "none"
  /\ normOut' =
       IF normIn.out = "error" THEN [status |-> "http500", entry |-> EmptyMap]
       ELSE [status |-> "entry",
             entry  |-> RunOcrResult(normIn.model, normIn.up, normIn.lat,
                                     normIn.backend_latency_ms)]
  /\ UNCHANGED <<schedVars, normIn, pureVars>>

NormNext == NormRunOne \/ NormRunOcr

\* ------------------------------------------------------------------------
\* SpecLines: one run of the EasyOCR or PaddleOCR extraction on a list of
\* detections
\* ------------------------------------------------------------------------

Point(x, y) == PyList(<<NpInt(x), NpInt(y)>>)

\* a well-formed box of 4 points with its top-left corner at (x, y)
GoodBox(x, y) ==
  PyList(<<Point(x, y), Point(x + 40, y), Point(x + 40, y + 10), Point(x, y + 10)>>)

\* the geometries a detection can come with: two well-formed boxes on
\* different rows and columns, a box of 3 points, a box with a point that is
\* a bare number, a box with a point of one coordinate, and a box with a
\* coordinate that is not a number
DetBoxes ==
  { GoodBox(0, 0),
    GoodBox(100, 20),
    PyList(<<Point(0, 0), Point(40, 0), Point(40, 10)>>),
    PyList(<<Point(0, 0), Point(40, 0), Point(40, 10), NpInt(5)>>),
    PyList(<<Point(0, 0), Point(40, 0), Point(40, 10), PyList(<<NpInt(0)>>)>>),
    PyList(<<Point(0, 0), Point(40, 0), Point(40, 10),
             PyList(<<PyStr(<<"x">>), NpInt(10)>>)>>) }

WellFormedBox(box) == box \in {GoodBox(0, 0), GoodBox(100, 20)}

\* texts of a detection: plain, with surrounding blanks, blank
DetTexts == {<<"Pen">>, <<" ", "Qty">>, <<" ">>}

DetPool == [box : DetBoxes, text : DetTexts, conf : {NpFloat(1)}]

DetLists == UNION {[1..n -> DetPool] : n \in 0..MaxDetections}

LinesInit ==
  /\ detIn \in [engine : {"easyocr", "paddleocr"}, dets : DetLists]
  /\ detOut = DetIdle
  /\ mdIn = NoMdInput
  /\ mdOut = MdIdle
  /\ RestIdle
  /\ normIn = NoInput
  /\ normOut = NormIdle
  /\ environ = EnvKeys
  /\ upload \in {u \in Uploads : u.content = "png"}
  /\ SchedStart

EasyOCRRun ==
  /\ detIn.engine = "easyocr"
  /\ detOut.status = "none"
  /\ detOut' = EasyOCRExtract(detIn.dets)
  /\ UNCHANGED <<schedVars, normIn, normOut, detIn, mdIn, mdOut, restVars>>

PaddleOCRRun ==
  /\ detIn.engine = "paddleocr"
  /\ detOut.status = "none"
  /\ detOut' = PaddleOCRExtract(detIn.dets)
  /\ UNCHANGED <<schedVars, normIn, normOut, detIn, mdIn, mdOut, restVars>>

LinesNext == EasyOCRRun \/ PaddleOCRRun

\* ------------------------------------------------------------------------
\* SpecMd: the functions of postprocess_markdown.py applied to a text and a
\* list of tokens
\* ------------------------------------------------------------------------

\* a token 40 wide and 10 high with its top-left corner at (x1, y1)
Tok(text, x1, y1) ==
  [text |-> text, x1 |-> x1, y1 |-> y1, x2 |-> x1 + 40, y2 |-> y1 + 10]

\* tokens for the freely combined lists: centres 8 apart vertically (within
\* the tolerance of a neighbour, beyond it over two steps) and 30 or 70 apart
\* horizontally; a text with a pipe and a newline in it
TokenPool ==
  {Tok(t, x, y) : t \in {<<"Pen">>, <<"a", "|", "\n", "b">>},
                  x \in {0, 30, 100}, y \in {0, 8, 16, 40}}

FreeTokenLists == UNION {[1..n -> TokenPool] : n \in 0..MaxTokens}

\* the tokens Name(0,0,40,10), Qty(100,0,130,10), Pen(0,20,40,30),
\* 3(100,20,130,30)
ExampleTokens ==
  << [text |-> <<"Name">>, x1 |-> 0,   y1 |-> 0,  x2 |-> 40,  y2 |-> 10],
     [text |-> <<"Qty">>,  x1 |-> 100, y1 |-> 0,  x2 |-> 130, y2 |-> 10],
     [text |-> <<"Pen">>,  x1 |-> 0,   y1 |-> 20, x2 |-> 40,  y2 |-> 30],
     [text |-> <<"3">>,    x1 |-> 100, y1 |-> 20, x2 |-> 130, y2 |-> 30] >>

\* a two-row layout of n columns 50 apart: the first row has a token in the
\* columns of headerCols, the second row in every column
GridTokens(n, headerCols) ==
  [i \in 1..Len(SelectSeq([c \in 1..n |-> c], LAMBDA c : c \in headerCols)) |->
     Tok(<<"H">>, 50 * (SelectSeq([c \in 1..n |-> c], LAMBDA c : c \in headerCols)[i] - 1), 0)]
  \o [c \in 1..n |-> Tok(<<"v">>, 50 * (c - 1), 20)]

\* two rows whose horizontal centres are 20, 60 and 90, 105, 110: the second
\* column is created at 60 and ends at 100, so that the token at 20, alone in
\* the first column, and the token at 60 are both assigned after the centres
\* have moved
DriftTokens ==
  << Tok(<<"No">>, 0, 0), Tok(<<"Item">>, 40, 0),
     Tok(<<"1">>, 70, 20), Tok(<<"Pen">>, 85, 20), Tok(<<"box">>, 90, 20) >>

GridTokenLists ==
  UNION {{GridTokens(n, h) : h \in SUBSET (1..n)} : n \in 2..MaxGridCols}

MdTexts ==
  { <<>>,
    <<"<b>", "Ship To:", "</b>", " ", "Acme">>,
    <<"a", "\n", "\n", "\n", "b">>,
    <<"<i>", "x", "</i>", "\n", "\n", "< b >", "y", "</ b>">>,
    <<" ", "Total", "<br/>", "\n">> }

MdInputs ==
  [text : MdTexts,
   tokens : {ExampleTokens, DriftTokens} \cup {l \in FreeTokenLists : Len(l) <= 1}]
  \cup [text : {<<"<b>", "Ship To:", "</b>", " ", "Acme">>},
        tokens : FreeTokenLists \cup GridTokenLists]

MdInit ==
  /\ mdIn \in MdInputs
  /\ mdOut = MdIdle
  /\ detIn = NoDetections
  /\ detOut = DetIdle
  /\ RestIdle
  /\ normIn = NoInput
  /\ normOut = NormIdle
  /\ environ = EnvKeys
  /\ upload \in {u \in Uploads : u.content = "png"}
  /\ SchedStart

ClusterRows ==
  /\ "rows" \notin mdOut.done
  /\ mdOut' = [mdOut EXCEPT !.done = @ \cup {"rows"}, !.rows = _cluster_rows(mdIn.tokens)]
  /\ UNCHANGED <<schedVars, normIn, normOut, detIn, detOut, mdIn, restVars>>

\* _infer_columns applied to the rows of _cluster_rows; the centres are kept
\* times XScale(rows)
InferColumns ==
  /\ "rows" \in mdOut.done /\ "cols" \notin mdOut.done
  /\ mdOut' = [mdOut EXCEPT !.done = @ \cup {"cols"}, !.cols = _infer_columns(mdOut.rows)]
  /\ UNCHANGED <<schedVars, normIn, normOut, detIn, detOut, mdIn, restVars>>

\* grid = [_assign_to_columns(r, col_centers) for r in rows]
AssignToColumns ==
  /\ "cols" \in mdOut.done /\ "grid" \notin mdOut.done
  /\ mdOut' = [mdOut EXCEPT !.done = @ \cup {"grid"}, !.grid = GridOf(mdOut.rows, mdOut.cols)]
  /\ UNCHANGED <<schedVars, normIn, normOut, detIn, detOut, mdIn, restVars>>

TokensToMarkdownTable ==
  /\ "table" \notin mdOut.done
  /\ mdOut' = [mdOut EXCEPT !.done = @ \cup {"table"},
                            !.table = tokens_to_markdown_table(mdIn.tokens)]
  /\ UNCHANGED <<schedVars, normIn, normOut, detIn, detOut, mdIn, restVars>>

NormalizeToMarkdown ==
  /\ "md" \notin mdOut.done
  /\ mdOut' = [mdOut EXCEPT !.done = @ \cup {"md"},
                            !.md = normalize_to_markdown(mdIn.text, mdIn.tokens)]
  /\ UNCHANGED <<schedVars, normIn, normOut, detIn, detOut, mdIn, restVars>>

MdNext ==
  \/ ClusterRows
  \/ InferColumns
  \/ AssignToColumns
  \/ TokensToMarkdownTable
  \/ NormalizeToMarkdown




\* ------------------------------------------------------------------------
\* SpecClean: the three _clean_ocr_text routines applied to one text
\* ------------------------------------------------------------------------

\* the lines a model's answer is made of: blank, a fence, a fence with a
\* language marker, a fence with a word of content, a fenced block on one
\* line, content of letters only,
\* content with a digit, a preface, a bare label, a long word
CleanLinePool ==
  { <<>>,
    <<FENCE>>,
    <<FENCE, "markdown">>,
    <<FENCE, "Invoice">>,
    <<FENCE, " ", "Hello", FENCE>>,
    <<"Invoice">>,
    <<"Total", " ", "12">>,
    <<"Output", ":">>,
    <<"json">>,
    <<"Acknowledgement">> }

\* the text: fence markdown, Hello, World, fence on four lines
ExampleFenced ==
  <<FENCE, "markdown", "\n", "Hello", "\n", "World", "\n", FENCE>>

CleanTexts ==
  {ExampleFenced}
  \cup UNION {{join(<<"\n">>, l) : l \in [1..n -> CleanLinePool]} : n \in 0..MaxCleanLines}

CleanEngines == {"gemini3", "gemini3pro", "glm-ocr"}

CleanInit ==
  /\ cleanIn \in CleanTexts
  /\ cleanOut = CleanIdle
  /\ billIn = NoBillInput
  /\ billOut = BillIdle
  /\ retry = RetryIdle
  /\ detIn = NoDetections
  /\ detOut = DetIdle
  /\ mdIn = NoMdInput
  /\ mdOut = MdIdle
  /\ normIn = NoInput
  /\ normOut = NormIdle
  /\ environ = EnvKeys
  /\ upload \in {u \in Uploads : u.content = "png"}
  /\ SchedStart

\* cleanOut with the result of one more engine
WithCleaned(out, e, result) ==
  [x \in DOMAIN out \cup {e} |-> IF x = e THEN result ELSE out[x]]

Gemini3CleanText ==
  /\ "gemini3" \notin DOMAIN cleanOut
  /\ cleanOut' = WithCleaned(cleanOut, "gemini3", Gemini3Clean(cleanIn))
  /\ UNCHANGED <<schedVars, normIn, normOut, detIn, detOut, mdIn, mdOut, cleanIn,
                 billIn, billOut, retry>>

Gemini3ProCleanText ==
  /\ "gemini3pro" \notin DOMAIN cleanOut
  /\ cleanOut' = WithCleaned(cleanOut, "gemini3pro", Gemini3ProClean(cleanIn))
  /\ UNCHANGED <<schedVars, normIn, normOut, detIn, detOut, mdIn, mdOut, cleanIn,
                 billIn, billOut, retry>>

GlmCleanText ==
  /\ "glm-ocr" \notin DOMAIN cleanOut
  /\ cleanOut' = WithCleaned(cleanOut, "glm-ocr", GlmClean(cleanIn))
  /\ UNCHANGED <<schedVars, normIn, normOut, detIn, detOut, mdIn, mdOut, cleanIn,
                 billIn, billOut, retry>>

CleanNext == Gemini3CleanText \/ Gemini3ProCleanText \/ GlmCleanText

\* ------------------------------------------------------------------------
\* SpecBill: build_billing applied to the mapping of one engine, under a
\* configuration of the per-token prices
\* ------------------------------------------------------------------------

\* marks a key the payload does not have
Absent == [t |-> "absent", v |-> 0]

\* a billing record an adapter could embed itself
EmbeddedBilling ==
  PyDict([type |-> PyStr(<<"provider_invoice">>), cost_usd |-> PyFloat(1234)])

\* the values of the keys build_billing reads; one hour is 3600000 ms
BillFields ==
  [billing            : {Absent, EmbeddedBilling},
   latency_ms         : {Absent, PyInt(0), PyInt(1), PyInt(MS_PER_HOUR)},
   backend_latency_ms : {Absent, PyInt(0), PyInt(2 * MS_PER_HOUR)},
   usage              : {Absent,
                         PyDict([input_tokens |-> PyInt(10)]),
                         PyDict([prompt_tokens |-> PyInt(10), completion_tokens |-> PyInt(5)])},
   meta               : {Absent,
                         PyDict([output_tokens |-> PyInt(5)]),
                         PyDict([latency_ms |-> PyInt(MS_PER_HOUR)])}]

\* the mapping with the keys that are not absent
PayloadOf(f) ==
  [k \in {k \in DOMAIN f : f[k] # Absent} |-> f[k]]

\* the environment with no price set, with the input price of gemini3 set,
\* and with both prices of gemini3 set
BillEnvironments ==
  { EnvKeys,
    EnvKeys \cup {"GEMINI3_USD_PER_INPUT_TOKEN"},
    EnvKeys \cup {"GEMINI3_USD_PER_INPUT_TOKEN", "GEMINI3_USD_PER_OUTPUT_TOKEN"} }

BillInit ==
  /\ billIn \in {[model |-> m, payload |-> PayloadOf(f)] :
                   m \in {"gemini3", "easyocr"}, f \in BillFields}
  /\ billOut = BillIdle
  /\ environ \in BillEnvironments
  /\ cleanIn = <<>>
  /\ cleanOut = CleanIdle
  /\ retry = RetryIdle
  /\ detIn = NoDetections
  /\ detOut = DetIdle
  /\ mdIn = NoMdInput
  /\ mdOut = MdIdle
  /\ normIn = NoInput
  /\ normOut = NormIdle
  /\ upload \in {u \in Uploads : u.content = "png"}
  /\ SchedStart

BuildBilling ==
  /\ billOut.status = "none"
  /\ billOut' = [status  |-> "built",
                 billing |-> build_billing(billIn.model, billIn.payload,
                                           FileSize(upload.content))]
  /\ UNCHANGED <<schedVars, normIn, normOut, detIn, detOut, mdIn, mdOut, cleanIn,
                 cleanOut, billIn, retry>>

BillNext == BuildBilling

\* ------------------------------------------------------------------------
\* SpecRetry: one call of run() of a remote-API adapter, with the outcome of
\* every HTTP (or SDK) call chosen by the network
\* ------------------------------------------------------------------------

RemoteEngines == {"gemini3", "gemini3pro", "mistral", "glm-ocr"}

\* what one HTTP call can do: a good response, no response within the
\* timeout, and a response with a status of 400 or more; retry.outcomes lists
\* what the calls of this run did, retry.sleeps the waits in tenths of a second
CallOutcomes == {"ok", "timeout", "http_503", "http_400"}

\* the declared content types offered to run()
RetryMimes == {"image/png", "text/plain"}

\* time.sleep(0.6 * (attempt + 1)), in tenths of a second
Backoff(attempt) == 6 * (attempt + 1)

\* the mime check at the head of Gemini3Adapter.run
Gemini3AcceptsMime(mime) == IsImageMime(mime) \/ mime = "application/pdf"

\* the mime check at the head of GLMOCRAdapter.run
GlmAcceptsMime(mime) == IsImageMime(mime) \/ mime = "application/octet-stream"

\* an exception leaving run(): its type, the failure of the call it reports
\* and whether its message gives the elapsed time
Raised(type, cause, elapsed) == [type |-> type, cause |-> cause, elapsed |-> elapsed]

notRetryVars ==
  <<schedVars, normIn, normOut, detIn, detOut, mdIn, mdOut, cleanIn, cleanOut,
    billIn, billOut>>

RetryInit ==
  /\ retry \in {[RetryIdle EXCEPT !.engine = e, !.mime = m, !.max_retries = n,
                                  !.pc = "start"] :
                  e \in RemoteEngines, m \in RetryMimes, n \in 0..MaxRetries}
  /\ cleanIn = <<>>
  /\ cleanOut = CleanIdle
  /\ billIn = NoBillInput
  /\ billOut = BillIdle
  /\ detIn = NoDetections
  /\ detOut = DetIdle
  /\ mdIn = NoMdInput
  /\ mdOut = MdIdle
  /\ normIn = NoInput
  /\ normOut = NormIdle
  /\ environ = EnvKeys
  /\ upload \in {u \in Uploads : u.content = "png"}
  /\ SchedStart

\* Gemini3Adapter.run up to the loop: the mime check, then attempt 0
Gemini3Begin ==
  /\ retry.engine = "gemini3" /\ retry.pc = "start"
  /\ retry' = IF Gemini3AcceptsMime(retry.mime)
               THEN [retry EXCEPT !.pc = IF 0 <= retry.max_retries
                                         THEN "request" ELSE "exhausted"]
               ELSE [retry EXCEPT !.pc = "raised",
                                  !.error = Raised("ValueError", "mime", FALSE)]
  /\ UNCHANGED notRetryVars

\* the body of the try of one pass of the loop: requests.post, the status
\* check, and on a good response the return; any exception is caught and
\* kept in last_err
Gemini3Attempt ==
  /\ retry.engine = "gemini3" /\ retry.pc = "request"
  /\ \E res \in CallOutcomes :
       retry' = IF res = "ok"
                THEN [retry EXCEPT !.outcomes = Append(@, res), !.pc = "returned"]
                ELSE [retry EXCEPT !.outcomes = Append(@, res), !.last_err = res, !.pc = "except"]
  /\ UNCHANGED notRetryVars

\* the except clause after last_err is set: time.sleep(0.6 * (attempt + 1)),
\* then the next value of range(max_retries + 1) or the end of the loop
Gemini3Sleep ==
  /\ retry.engine = "gemini3" /\ retry.pc = "except"
  /\ retry' = [retry EXCEPT !.sleeps = Append(@, Backoff(retry.attempt)),
                            !.attempt = @ + 1,
                            !.pc = IF retry.attempt + 1 <= retry.max_retries
                                   THEN "request" ELSE "exhausted"]
  /\ UNCHANGED notRetryVars

\* after the loop: RuntimeError with the elapsed time and last_err
Gemini3GiveUp ==
  /\ retry.engine = "gemini3" /\ retry.pc = "exhausted"
  /\ retry' = [retry EXCEPT !.pc = "raised",
                            !.error = Raised("RuntimeError", retry.last_err, TRUE)]
  /\ UNCHANGED notRetryVars

\* Gemini3ProAdapter.run: one generate_content call; what the SDK raises
\* leaves run() as it is
Gemini3ProRun ==
  /\ retry.engine = "gemini3pro" /\ retry.pc = "start"
  /\ \E res \in CallOutcomes :
       retry' = IF res = "ok"
                THEN [retry EXCEPT !.outcomes = Append(@, res), !.pc = "returned"]
                ELSE [retry EXCEPT !.outcomes = Append(@, res), !.last_err = res, !.pc = "raised",
                                   !.error = Raised("APIError", res, FALSE)]
  /\ UNCHANGED notRetryVars

\* MistralOCRAdapter.run: one requests.post; its exception and a status of
\* 400 or more both become a RuntimeError at once
MistralRun ==
  /\ retry.engine = "mistral" /\ retry.pc = "start"
  /\ \E res \in CallOutcomes :
       retry' = IF res = "ok"
                THEN [retry EXCEPT !.outcomes = Append(@, res), !.pc = "returned"]
                ELSE [retry EXCEPT !.outcomes = Append(@, res), !.last_err = res, !.pc = "raised",
                                   !.error = Raised("RuntimeError", res, FALSE)]
  /\ UNCHANGED notRetryVars

\* GLMOCRAdapter.run: the mime check, then one requests.post; its exception
\* leaves run() as it is, a response that is not ok becomes a RuntimeError
GlmRun ==
  /\ retry.engine = "glm-ocr" /\ retry.pc = "start"
  /\ \E res \in CallOutcomes :
       retry' = IF ~GlmAcceptsMime(retry.mime)
                THEN [retry EXCEPT !.pc = "raised",
                                   !.error = Raised("ValueError", "mime", FALSE)]
                ELSE IF res = "ok"
                THEN [retry EXCEPT !.outcomes = Append(@, res), !.pc = "returned"]
                ELSE [retry EXCEPT !.outcomes = Append(@, res), !.last_err = res, !.pc = "raised",
                                   !.error = Raised(IF res = "timeout" THEN "RequestException"
                                                    ELSE "RuntimeError", res, FALSE)]
  /\ UNCHANGED notRetryVars

RetryNext ==
  \/ Gemini3Begin
  \/ Gemini3Attempt
  \/ Gemini3Sleep
  \/ Gemini3GiveUp
  \/ Gemini3ProRun
  \/ MistralRun
  \/ GlmRun

SchedNext ==
  \/ \E r \in Requests : Arrive(r)
  \/ \E r \in Requests : BenchmarkStart(r)
  \/ \E r \in Requests, e \in Engines : TaskStart(r, e)
  \/ \E r \in Requests, e \in Engines : TaskWoken(r, e)
  \/ \E r \in Requests, e \in Engines : ThreadFinish(r, e)
  \/ \E r \in Requests, e \in Engines : TaskAfterThread(r, e)
  \/ \E r \in Requests, e \in Engines : ApiReturn(r, e)
  \/ \E r \in Requests : GatherResume(r)
  \/ \E r \in Requests : OcrStart(r)
  \/ \E r \in Requests : OcrReturn(r)

Init ==
  /\ SchedInit
  /\ normIn = NoInput
  /\ normOut = NormIdle
  /\ PureIdle

Next == SchedNext

Spec == Init /\ [][Next]_vars

SpecNorm == NormInit /\ [][NormNext]_vars

SpecLines == LinesInit /\ [][LinesNext]_vars

SpecMd == MdInit /\ [][MdNext]_vars

SpecClean == CleanInit /\ [][CleanNext]_vars

SpecBill == BillInit /\ [][BillNext]_vars

SpecRetry == RetryInit /\ [][RetryNext]_vars

\* run() is not abandoned while it has a step to take: every HTTP call returns
\* or times out, and time.sleep returns
FairSpecRetry == SpecRetry /\ WF_vars(RetryNext)

\* ------------------------------------------------------------------------
\* Properties
\* ------------------------------------------------------------------------

BenchmarkRequests == {r \in Requests : req[r].kind = "benchmark"}

\* the adapter call of model e in request r has begun and run_one / run_ocr
\* has not yet got its result or its exception
InProgress(r, e) == pc[r][e] \in {"thread", "threaddone", "blocking"}

InProgressOf(engines) ==
  {x \in BenchmarkRequests \X engines : InProgress(x[1], x[2])}

LatencyPairs ==
  {p \in (0..MaxLatency) \X (0..MaxLatency) : p[1] <= p[2]}

ErrorEntryKeys == {"model", "filename", "mime_type", "error", "backend_latency_ms"}

\* C1: in run_benchmark an exception of one engine's adapter call never leaves
\* the request (the request raises only when the dispatcher's own PDF
\* conversion or an adapter constructor raised); in the response the failed
\* engine's entry has exactly model, filename, mime_type, error and
\* backend_latency_ms, every engine's call has run to its end, and every
\* engine whose call returned has its entry with text and lines and no error.
C1_InvocationFailureIsolated ==
  \A r \in BenchmarkRequests :
    /\ req[r].st = "raised" =>
         \/ DispatcherConversionRaises("benchmark", "", upload)
         \/ \E e \in Engines : CtorRaises(e, environ)
    /\ \A e \in Engines :
         (pc[r][e] = "done" /\ ~CtorRaises(e, environ)) => outcome[r][e] \in {"ok", "error"}
    /\ req[r].st = "returned" =>
         \A e \in Engines :
           /\ pc[r][e] = "done"
           /\ e \in DOMAIN results[r]
           /\ results[r][e] = e
           /\ \A p \in LatencyPairs :
                LET entry == RunOneEntry(e, upload, outcome[r][e], p[1], p[2]) IN
                IF outcome[r][e] = "error"
                THEN /\ DOMAIN entry = ErrorEntryKeys
                     /\ entry["model"] = PyStr(<<e>>)
                ELSE /\ outcome[r][e] = "ok"
                     /\ {"text", "lines"} \subseteq DOMAIN entry
                     /\ "error" \notin DOMAIN entry

\* C1 witness: a benchmark response in which one engine failed and another
\* succeeded
C1_Witness ==
  \E r \in BenchmarkRequests :
    /\ req[r].st = "returned"
    /\ \E e \in Engines : outcome[r][e] = "error"
    /\ \E e \in Engines : outcome[r][e] = "ok"

\* C2: an engine whose adapter constructor raises for missing configuration
\* is captured as an error entry of that engine only: run_one does not raise
\* and the request is not aborted by it.
C2_ConstructorFailureCaptured ==
  \A r \in BenchmarkRequests :
    ~DispatcherConversionRaises("benchmark", "", upload) =>
      /\ req[r].st # "raised"
      /\ \A e \in Engines : outcome[r][e] # "raised"

\* C3: for every upload and every combination of adapter outcomes, a
\* run_benchmark request that has ended has returned a results mapping with
\* exactly one entry per registered engine, keyed by the engine id (stated for
\* a fully configured environment).
C3_OneEntryPerEngine ==
  \A r \in BenchmarkRequests :
    (environ = EnvKeys /\ req[r].st \in {"returned", "raised"}) =>
      /\ req[r].st = "returned"
      /\ DOMAIN results[r] = Engines
      /\ \A e \in Engines : results[r][e] = e

\* C4: across all run_benchmark requests at most 2 calls of remote-API
\* engines are in progress, and each call in progress holds one of the two
\* permits of API_SEM.
C4_AtMostTwoApiCalls ==
  /\ Cardinality(InProgressOf(RemoteEngines)) <= 2
  /\ sem.api + Cardinality(InProgressOf(RemoteEngines)) = 2

\* C4 witness: a remote-API call is in progress while another benchmark
\* request is being handled
C4_Witness ==
  /\ Cardinality(InProgressOf(RemoteEngines)) >= 1
  /\ Cardinality({r \in BenchmarkRequests : req[r].st = "running"}) >= 2

\* C5: across all run_benchmark requests at most 1 call of trocr is in
\* progress; easyocr and paddleocr never wait for an admission pool.
C5_HeavyExclusiveLocalFree ==
  /\ Cardinality(InProgressOf({"trocr"})) <= 1
  /\ \A r \in BenchmarkRequests : \A e \in {"easyocr", "paddleocr"} :
       /\ pc[r][e] \notin {"waitsem", "woken"}
       /\ \A s \in {"api", "heavy"} : \A i \in 1..Len(waiters[s]) : waiters[s][i] # <<r, e>>

\* C5 witness: easyocr, paddleocr and trocr run at the same time, easyocr in
\* two requests at once, while the trocr call of the other request waits
C5_Witness ==
  \E r \in BenchmarkRequests : \E q \in BenchmarkRequests \ {r} :
    /\ pc[r]["easyocr"] = "thread"
    /\ pc[r]["paddleocr"] = "thread"
    /\ pc[r]["trocr"] = "thread"
    /\ pc[q]["easyocr"] = "thread"
    /\ pc[q]["trocr"] = "waitsem"

\* C6: a permit is held exactly while the call it admits is in progress, so
\* whenever no call is in progress API_SEM has 2 free permits and HEAVY_SEM 1.
C6_PermitsGivenBack ==
  /\ sem.api = 2 - Cardinality(InProgressOf(RemoteEngines))
  /\ sem.heavy = 1 - Cardinality(InProgressOf({"trocr"}))
  /\ (\A r \in Requests : \A e \in Engines : ~InProgress(r, e)) =>
       (sem.api = 2 /\ sem.heavy = 1)

\* C6 witness: nothing is in progress after a semaphore-admitted call has
\* failed and another one has succeeded
C6_Witness ==
  /\ \A r \in Requests : \A e \in Engines : ~InProgress(r, e)
  /\ \E r \in BenchmarkRequests : \E e \in RemoteEngines \cup {"trocr"} :
       pc[r][e] = "done" /\ outcome[r][e] = "error"
  /\ \E r \in BenchmarkRequests : \E e \in RemoteEngines \cup {"trocr"} :
       pc[r][e] = "done" /\ outcome[r][e] = "ok"

\* C7: the call of a remote-API adapter without a run_async of its own does
\* not execute on the event loop (it runs in the worker-thread pool), so the
\* loop stays free for other invocations while it is in progress.
C7_ApiFallbackOffTheLoop ==
  \A r \in BenchmarkRequests : \A e \in RemoteEngines :
    InProgress(r, e) => (pc[r][e] = "thread" /\ loopOwner # <<r, e>>)

\* C8: each engine's adapter is constructed at most once per process.
C8_ConstructedAtMostOnce ==
  \A e \in Engines : constructed[e] <= 1

\* C9: within one benchmark request at most one PDF-to-raster conversion is
\* performed, counting the dispatcher's and those inside the adapters.
C9_ConvertedAtMostOnce ==
  \A r \in BenchmarkRequests : conversions[r] <= 1

\* the input the adapter of the SpecNorm invocation was given
NormEff ==
  IF normIn.endpoint = "ocr" THEN EffectiveOcr(normIn.model, normIn.up)
  ELSE EffectiveBenchmark(normIn.model, normIn.up)

NormSucceeded == normOut.status = "entry" /\ normIn.out = "ok"

DefaultKeys == {"model", "filename", "mime_type", "backend_latency_ms"}

\* C10 as stated: on success every key/value of the adapter's mapping is
\* unchanged in the final result, the four defaults are added only for
\* missing keys, and billing is set.
C10_AdapterValuesUnchanged ==
  NormSucceeded =>
    LET given == AdapterResult(normIn.model, NormEff, normIn.lat)
        final == normOut.entry
    IN /\ DOMAIN final = (DOMAIN given) \cup DefaultKeys \cup {"billing"}
       /\ \A k \in (DOMAIN given) \ {"billing"} : final[k] = given[k]

\* C10 amended: on success every key of the adapter's mapping keeps the
\* adapter's value in its JSON-safe form (sanitize_for_json: a tuple becomes a
\* list, a numpy scalar a plain number), a default is added only for a key
\* the adapter did not return, and billing is set.
C10_AdapterValuesKept ==
  NormSucceeded =>
    LET given == AdapterResult(normIn.model, NormEff, normIn.lat)
        final == normOut.entry
    IN /\ DOMAIN final = (DOMAIN given) \cup DefaultKeys \cup {"billing"}
       /\ \A k \in (DOMAIN given) \ {"billing"} : final[k] = sanitize_for_json(given[k])
       /\ "backend_latency_ms" \notin DOMAIN given =>
            final["backend_latency_ms"] = PyInt(normIn.backend_latency_ms)
       /\ "filename" \notin DOMAIN given => final["filename"] = PyStr(NormEff.filename)
       /\ "mime_type" \notin DOMAIN given => final["mime_type"] = PyStr(<<NormEff.mime>>)
       /\ final["billing"].t = "dict"

\* C10 witness: a successful invocation whose adapter returned its own
\* backend_latency_ms, different from the dispatcher's measurement
C10_Witness ==
  /\ NormSucceeded
  /\ "backend_latency_ms" \in DOMAIN AdapterResult(normIn.model, NormEff, normIn.lat)
  /\ normIn.lat # normIn.backend_latency_ms

\* C11: every entry of a run_benchmark response, of a call that returned and
\* of a call that raised, carries backend_latency_ms, and its value is the
\* integer number of milliseconds the dispatcher measured around the call,
\* not a value of the adapter.
C11_LatencyIsDispatchers ==
  (normOut.status = "entry" /\ normIn.endpoint = "benchmark") =>
    /\ "backend_latency_ms" \in DOMAIN normOut.entry
    /\ normOut.entry["backend_latency_ms"] = PyInt(normIn.backend_latency_ms)

RequiredKeys ==
  {"model", "filename", "mime_type", "text", "lines", "line_count",
   "backend_latency_ms", "raw", "billing"}

\* C12: every result run_benchmark or run_ocr returns for an engine whose call
\* returned (the error entries, which have none of text, lines, raw and
\* billing, are left aside) has all
\* of model, filename, mime_type, text, lines, line_count,
\* backend_latency_ms, raw and billing, and line_count, when present, is the
\* number of entries of lines.
C12_StructurallyComplete ==
  NormSucceeded =>
    /\ RequiredKeys \subseteq DOMAIN normOut.entry
    /\ {"line_count", "lines"} \subseteq DOMAIN normOut.entry =>
         normOut.entry["line_count"] = PyInt(Len(normOut.entry["lines"].v))

LineKeys == {"text", "score", "box"}

\* C13: every element of lines in the result of every registered engine is a
\* record with exactly the fields text, score and box.
C13_LineRecordShape ==
  NormSucceeded =>
    LET lines == normOut.entry["lines"].v IN
    \A i \in 1..Len(lines) :
      /\ lines[i].t = "dict"
      /\ DOMAIN lines[i].v = LineKeys

\* the detections whose text is not blank after trimming, in their order
NonBlank(dets) == SelectSeq(dets, LAMBDA d : strip(d.text) # <<>>)

\* C14: in the EasyOCR and PaddleOCR extraction a detection whose box is
\* malformed or partial never makes run raise; its text is kept in lines, it
\* gets a null box and no token, and the other detections are processed
\* normally (one line each, one token for each well-formed box).
C14_MalformedBoxIsolated ==
  detOut.status # "none" =>
    /\ detOut.status = "ok"
    /\ LET kept == NonBlank(detIn.dets) IN
       /\ Len(detOut.lines.v) = Len(kept)
       /\ \A i \in 1..Len(kept) :
            /\ detOut.lines.v[i].v["text"] = PyStr(strip(kept[i].text))
            /\ ~WellFormedBox(kept[i].box) => Get(detOut.lines.v[i].v, "box") = PyNone
       /\ Len(detOut.tokens) = Len(SelectSeq(kept, LAMBDA d : WellFormedBox(d.box)))

\* the pieces of s between occurrences of the atom sep
RECURSIVE SplitOn(_, _, _)
SplitOn(s, sep, cur) ==
  IF s = <<>> THEN <<cur>>
  ELSE IF Head(s) = sep THEN <<cur>> \o SplitOn(Tail(s), sep, <<>>)
  ELSE SplitOn(Tail(s), sep, Append(cur, Head(s)))

\* the texts placed in the cells of a table, cell by cell, row by row
RECURSIVE CellTexts(_)
CellTexts(grid) ==
  IF grid = <<>> THEN <<>>
  ELSE SelectSeq(Flatten([i \in 1..Len(Head(grid)) |-> SplitOn(Head(grid)[i], " ", <<>>)]),
                 LAMBDA piece : piece # <<>>)
       \o CellTexts(Tail(grid))

\* how often x occurs in the sequence s
Occurrences(s, x) == Cardinality({i \in 1..Len(s) : s[i] = x})

\* C15: no detection with non-blank text is lost: run returns and each such
\* detection is an entry of lines, in order; when a table is rendered from
\* the tokens, every token's text is in exactly one cell of it; a detection
\* with blank text is in neither lines nor tokens.
C15_NoDetectionLost ==
  detOut.status # "none" =>
    /\ detOut.status = "ok"
    /\ LET kept == NonBlank(detIn.dets) IN
       /\ Len(detOut.lines.v) = Len(kept)
       /\ \A i \in 1..Len(kept) :
            detOut.lines.v[i].v["text"] = PyStr(strip(kept[i].text))
    /\ \A i \in 1..Len(detOut.tokens) : strip(detOut.tokens[i].text) # <<>>
    /\ LET parts == TableParts(detOut.tokens)
           cells == CellTexts((IF parts.real THEN <<parts.header>> ELSE <<>>) \o parts.body)
       IN parts.accepted =>
            /\ Len(cells) = Len(detOut.tokens)
            /\ \A i \in 1..Len(detOut.tokens) :
                 Occurrences(cells, detOut.tokens[i].text)
                   = Occurrences([k \in 1..Len(detOut.tokens) |-> detOut.tokens[k].text],
                                 detOut.tokens[i].text)

\* the orders in which a list of n tokens is presented again: every
\* permutation for a short list, the reversal and the rotation by one for a
\* long one
Shuffles(n) ==
  IF n <= Len(ExampleTokens) THEN Permutations(1..n)
  ELSE {[i \in 1..n |-> n + 1 - i], [i \in 1..n |-> (i % n) + 1]}

\* a and b hold the same tokens, each as often
SameBag(a, b) ==
  /\ Len(a) = Len(b)
  /\ \A i \in 1..Len(a) : Occurrences(a, a[i]) = Occurrences(b, a[i])

\* twice the smallest vertical centre of a row
Anchor2(row) == SeqMin([i \in 1..Len(row) |-> YCentre2(row[i])])

\* C16: for every list of tokens and every permutation of it, _cluster_rows
\* gives the same partition into rows in the same top-to-bottom order, the
\* rows hold exactly the tokens given, and in every row each token's vertical
\* centre is within the tolerance 10 of the row's smallest vertical centre.
C16_ClusteringOrderInsensitive ==
  "rows" \in mdOut.done =>
    /\ SameBag(Flatten(mdOut.rows), mdIn.tokens)
    /\ \A p \in Shuffles(Len(mdIn.tokens)) :
         LET other == _cluster_rows([i \in 1..Len(mdIn.tokens) |-> mdIn.tokens[p[i]]])
         IN /\ Len(other) = Len(mdOut.rows)
            /\ \A j \in 1..Len(other) : SameBag(other[j], mdOut.rows[j])
    /\ \A j \in 1..Len(mdOut.rows) :
         /\ \A i \in 1..Len(mdOut.rows[j]) :
              YCentre2(mdOut.rows[j][i]) - Anchor2(mdOut.rows[j]) <= 2 * 10
         /\ j > 1 => Anchor2(mdOut.rows[j - 1]) < Anchor2(mdOut.rows[j])

\* C16 witness: tokens given out of vertical order are clustered into two
\* rows, the second of which starts with a token that is within the
\* tolerance of the last centre of the first row but not of its anchor
C16_Witness ==
  /\ "rows" \in mdOut.done
  /\ Len(mdOut.rows) = 2
  /\ Len(mdOut.rows[1]) = 2
  /\ YCentre2(mdIn.tokens[1]) > YCentre2(mdIn.tokens[Len(mdIn.tokens)])
  /\ \E i \in 1..Len(mdOut.rows[1]) :
       Anchor2(mdOut.rows[2]) - YCentre2(mdOut.rows[1][i]) <= 2 * 10

\* the cells of the rows of the tokens given, before trimming
MdGrid == GridOf(_cluster_rows(mdIn.tokens), _infer_columns(_cluster_rows(mdIn.tokens)))

\* no column other than the first holds text in any row
OnlyFirstColumn(grid) ==
  \A r \in 1..Len(grid) : \A i \in 2..Len(grid[r]) : grid[r][i] = <<>>

\* C17: tokens_to_markdown_table returns the empty string exactly when the
\* tokens cluster into fewer than 2 rows or no column other than the first
\* holds text; tokens of a single row never give a table, and
\* normalize_to_markdown then returns html_to_markdown of the text.
C17_TableRejectedExactlyWhen ==
  /\ "table" \in mdOut.done =>
       ((mdOut.table = <<>>) <=>
          (Len(_cluster_rows(mdIn.tokens)) < 2 \/ OnlyFirstColumn(MdGrid)))
  /\ ("md" \in mdOut.done /\ Len(_cluster_rows(mdIn.tokens)) <= 1) =>
       mdOut.md = html_to_markdown(mdIn.text)

\* C17 witness: tokens on two rows, all in the first column, are rejected and
\* the text comes back converted
C17_Witness ==
  /\ {"table", "md"} \subseteq mdOut.done
  /\ Len(_cluster_rows(mdIn.tokens)) >= 2
  /\ mdOut.table = <<>>
  /\ mdOut.md = html_to_markdown(mdIn.text)
  /\ mdOut.md # mdIn.text

\* the positions of the newlines of a rendered table
Newlines(s) == {i \in 1..Len(s) : s[i] = "\n"}

\* the number of lines of a rendered table
LineCount(s) == Cardinality(Newlines(s)) + 1

\* the position of the newline that ends line k; one past the end for the
\* last line, 0 for k = 0
LineEnd(s, k) ==
  IF k = 0 THEN 0
  ELSE IF k > Cardinality(Newlines(s)) THEN Len(s) + 1
  ELSE CHOOSE i \in Newlines(s) : Cardinality({j \in Newlines(s) : j <= i}) = k

\* line k of a rendered table
TableLineAt(s, k) == SubSeq(s, LineEnd(s, k - 1) + 1, LineEnd(s, k) - 1)

\* the first line of a rendered table
FirstLine(s) == TableLineAt(s, 1)

\* row 0 of the grid, cut to n columns and escaped, as a table line
RowZeroLine(grid, n) == TableLine([i \in 1..n |-> md_escape(grid[1][i])])

\* the line of the headers "Col 1" .. "Col n"
GenericLine(n) == TableLine([i \in 1..n |-> GenericHeader(i)])

\* half of n rounded to the nearest integer, a tie going to the even
\* neighbour as Python's round does
HalfRounded(n) ==
  IF n % 2 = 0 THEN n \div 2
  ELSE IF (n \div 2) % 2 = 0 THEN n \div 2 ELSE (n \div 2) + 1

\* half of n rounded down
HalfFloor(n) == n \div 2

\* the header rule on a rendered table of n columns made from nrows rows:
\* row 0 is the header exactly when it has at least Half(n) and at least 2
\* non-empty cells; otherwise the generic headers come first and row 0 is
\* the first data row; the body rows plus a real header row are the rows
HeaderRule(table, grid, n, nrows, Half(_)) ==
  LET enough == NonEmptyCells(grid[1]) >= Half(n) /\ NonEmptyCells(grid[1]) >= 2
  IN /\ enough =>
          /\ FirstLine(table) = RowZeroLine(grid, n)
          /\ LineCount(table) - 2 + 1 = nrows
     /\ ~enough =>
          /\ FirstLine(table) = GenericLine(n)
          /\ TableLineAt(table, 3) = RowZeroLine(grid, n)
          /\ LineCount(table) - 2 = nrows

C18_WitnessGeneric ==
  /\ "table" \in mdOut.done
  /\ mdOut.table # <<>>
  /\ NonEmptyCells(MdGrid[1]) = 1
  /\ FirstLine(mdOut.table) = GenericLine(MaxUsed(MdGrid))

\* the number of cells of a table line: its pipes that are not escaped,
\* less one
LineCells(line) ==
  Cardinality({i \in 1..Len(line) : line[i] = "|" /\ (i = 1 \/ line[i - 1] # "\\")}) - 1

\* the number of escaped pipes of a rendered table
EscapedPipes(s) ==
  Cardinality({i \in 2..Len(s) : s[i] = "|" /\ s[i - 1] = "\\"})

\* the number of pipes in the texts of the tokens
RECURSIVE TokenPipes(_)
TokenPipes(tokens) ==
  IF tokens = <<>> THEN 0
  ELSE Cardinality({i \in 1..Len(Head(tokens).text) : Head(tokens).text[i] = "|"})
       + TokenPipes(Tail(tokens))

\* a rendered table of n columns made from nrows rows is rectangular
Rectangular(table, n, nrows) ==
  /\ n >= 2 /\ n <= 8
  /\ LineCount(table) - 2 \in {nrows - 1, nrows}
  /\ TableLineAt(table, 2) = TableLine([i \in 1..n |-> <<"---">>])
  /\ \A k \in 1..LineCount(table) :
        /\ LineCells(TableLineAt(table, k)) = n
        /\ SubSeq(TableLineAt(table, k), 1, 2) = <<"|", " ">>
  /\ \A k \in {1} \cup (3..LineCount(table)) :
        \A i \in 1..Len(TableLineAt(table, k)) : TableLineAt(table, k)[i] # "---"

\* | Name | Qty |, | --- | --- |, | Pen | 3 |
ExampleTable ==
  << "|", " ", "Name", " ", "|", " ", "Qty", " ", "|", "\n",
     "|", " ", "---", " ", "|", " ", "---", " ", "|", "\n",
     "|", " ", "Pen", " ", "|", " ", "3", " ", "|" >>

\* C19: every rendered table is rectangular: a header line, one separator
\* line of --- cells only, one line per body row, all with the same number
\* of cells, the highest populated column count, at most 8; newlines inside
\* a cell are replaced by spaces and every literal pipe is escaped; the
\* tokens Name, Qty, Pen, 3 of the example give the table with header
\* Name | Qty and the body row Pen | 3.
C19_TableRectangular ==
  "table" \in mdOut.done =>
     /\ mdOut.table # <<>> =>
          /\ Rectangular(mdOut.table, MaxUsed(MdGrid), Len(_cluster_rows(mdIn.tokens)))
          /\ EscapedPipes(mdOut.table) = TokenPipes(mdIn.tokens)
     /\ mdIn.tokens = ExampleTokens => mdOut.table = ExampleTable

\* C19 witness: a table is rendered from tokens whose text holds a pipe and
\* a newline
C19_Witness ==
  /\ "table" \in mdOut.done
  /\ mdOut.table # <<>>
  /\ TokenPipes(mdIn.tokens) >= 2
  /\ EscapedPipes(mdOut.table) >= 2
  /\ LineCount(mdOut.table) >= 3

\* C19 witness: the table of the example has been rendered
C19_WitnessExample ==
  /\ "table" \in mdOut.done
  /\ mdIn.tokens = ExampleTokens
  /\ mdOut.table = ExampleTable

\* C19 witness: tokens in 9 columns give a table of 8
C19_WitnessEightColumns ==
  /\ "table" \in mdOut.done
  /\ mdOut.table # <<>>
  /\ Len(mdIn.tokens) >= 9
  /\ LineCells(FirstLine(mdOut.table)) = 8

\* every run of more than two consecutive newlines cut down to two (one
\* blank line)
RECURSIVE CollapseNewlines(_)
CollapseNewlines(s) ==
  IF s = <<>> THEN <<>>
  ELSE IF Len(s) >= 3 /\ s[1] = "\n" /\ s[2] = "\n" /\ s[3] = "\n"
       THEN CollapseNewlines(Tail(s))
       ELSE <<Head(s)>> \o CollapseNewlines(Tail(s))

\* the conversion as stated: bold tags to **, other tags removed, runs of
\* newlines collapsed
ConversionAsStated(text) ==
  CollapseNewlines(
    SelectSeq([i \in 1..Len(text) |-> IF text[i] \in BoldTags THEN "**" ELSE text[i]],
              LAMBDA a : a \notin OtherTags))

\* C20: normalize_to_markdown without tokens, or with tokens whose table is
\* rejected, returns the conversion of the text: each <b> and </b> becomes
\* **, every other tag is removed with its content kept, every run of more
\* than two newlines is collapsed to one blank line ("<b>Ship To:</b> Acme"
\* gives "**Ship To:** Acme"); with an accepted table it returns the stripped
\* converted text, a blank line, then the table.
C20_ConversionOrTextAndTable ==
  {"table", "md"} \subseteq mdOut.done =>
     /\ mdOut.table = <<>> => mdOut.md = ConversionAsStated(mdIn.text)
     /\ mdOut.table # <<>> =>
          mdOut.md = strip(ConversionAsStated(mdIn.text)) \o <<"\n", "\n">> \o mdOut.table
     /\ (mdOut.table = <<>> /\ mdIn.text = <<"<b>", "Ship To:", "</b>", " ", "Acme">>) =>
          mdOut.md = <<"**", "Ship To:", "**", " ", "Acme">>

\* the contents of the fenced blocks of a text: what lies between an opening
\* fence and its closing fence, the fences pairing up from the left
FencedBlocks(text) ==
  [k \in 1..((Len(split(text, FENCE)) - 1) \div 2) |-> split(text, FENCE)[2 * k]]

\* the blocks no other block is longer than
LongestBlocks(blocks) ==
  {blocks[i] : i \in {i \in 1..Len(blocks) :
                       \A k \in 1..Len(blocks) : StrLen(blocks[k]) <= StrLen(blocks[i])}}

\* a is a contiguous part of b
IsInfix(a, b) ==
  \E i \in 0..(Len(b) - Len(a)) : SubSeq(b, i + 1, i + Len(a)) = a

\* C21: in every cleanup routine, when the text contains fenced blocks the
\* working text is content of the longest fenced block only, never text
\* outside every fence and never several blocks put together, and the
\* cleaned output contains no fence marker.
C21_LongestFencedBlockOnly ==
  \A e \in DOMAIN cleanOut :
     FencedBlocks(cleanIn) # <<>> =>
        /\ \E b \in LongestBlocks(FencedBlocks(cleanIn)) : IsInfix(cleanOut[e].chosen, b)
        /\ \A i \in 1..Len(cleanOut[e].out) : cleanOut[e].out[i] # FENCE

\* the lines of the working text of a text without fences
WorkLines(text) == splitlines(strip(text))

\* a line of content: not blank, not a preface phrase, not a bare label
IsContentLine(ln) == strip(ln) # <<>> /\ ~IsPreface(ln) /\ ~IsJunkLabel(ln)

\* the preface lines that come after the first content line
PrefacesAfterContent(lines) ==
  {i \in 1..Len(lines) :
     IsPreface(lines[i]) /\ \E j \in 1..(i - 1) : IsContentLine(lines[j])}

\* the preface lines of a text
PrefaceLines(lines) == {i \in 1..Len(lines) : IsPreface(lines[i])}

\* C22: cleanup removes a line that equals a preface phrase only when it is
\* the leading line of the working text; a line equal to such a phrase
\* anywhere after the first content line is kept in the output.
C22_PrefaceRemovedOnlyWhenLeading ==
  \A e \in DOMAIN cleanOut :
     (\A i \in 1..Len(cleanIn) : cleanIn[i] # FENCE) =>
        Cardinality(PrefaceLines(splitlines(cleanOut[e].out)))
          >= Cardinality(PrefacesAfterContent(WorkLines(cleanIn)))

\* the blank lines that lie directly between two content lines
BlankBetweenContent(lines) ==
  {i \in 2..(Len(lines) - 1) :
     /\ strip(lines[i]) = <<>>
     /\ IsContentLine(lines[i - 1])
     /\ IsContentLine(lines[i + 1])}

\* before, a blank line, after: three consecutive lines of the output
HasBlankBetween(out, before, after) ==
  \E j \in 2..(Len(out) - 1) :
     out[j - 1] = rstrip(before) /\ out[j] = <<>> /\ out[j + 1] = rstrip(after)

\* C23: cleanup preserves blank lines: every blank line between two content
\* lines of the working text, not adjacent to a removed preface or label
\* line, is still a blank line between the same two content lines in the
\* output of every cleanup routine.
C23_BlankLinesPreserved ==
  \A e \in DOMAIN cleanOut :
     (\A i \in 1..Len(cleanIn) : cleanIn[i] # FENCE) =>
        \A i \in BlankBetweenContent(WorkLines(cleanIn)) :
           HasBlankBetween(splitlines(cleanOut[e].out),
                           WorkLines(cleanIn)[i - 1], WorkLines(cleanIn)[i + 1])

\* the text is free of fences, or it is one fenced block and nothing else
PlainOrOneBlock(text) ==
  \/ \A i \in 1..Len(text) : text[i] # FENCE
  \/ /\ Len(split(strip(text), FENCE)) = 3
     /\ split(strip(text), FENCE)[1] = <<>>
     /\ split(strip(text), FENCE)[3] = <<>>

\* the working text of such a text: the content of the block, or the text
WorkingText(text) ==
  IF \A i \in 1..Len(text) : text[i] # FENCE THEN strip(text)
  ELSE strip(split(strip(text), FENCE)[2])

\* the content lines of a text, right-stripped, in order
ContentLines(text) ==
  RstripAll(SelectSeq(splitlines(text), IsContentLine))

\* a is b with some elements left out
RECURSIVE IsSubsequence(_, _)
IsSubsequence(a, b) ==
  IF a = <<>> THEN TRUE
  ELSE IF b = <<>> THEN FALSE
  ELSE IF Head(a) = Head(b) THEN IsSubsequence(Tail(a), Tail(b))
  ELSE IsSubsequence(a, Tail(b))

\* C29: cleanup never removes a line of genuine content: each line of the
\* working text that is not a fence marker, not a leading preface phrase and
\* not one of the bare labels markdown, json, text (an alphabetic first line
\* such as Invoice inside a fenced block included) is present, in the same
\* order, in the output of every cleanup routine; the fenced example with
\* the marker markdown gives Hello, World on two lines.
C29_ContentLinesKept ==
  \A e \in DOMAIN cleanOut :
     /\ PlainOrOneBlock(cleanIn) =>
          IsSubsequence(ContentLines(WorkingText(cleanIn)), splitlines(cleanOut[e].out))
     /\ cleanIn = ExampleFenced => cleanOut[e].out = <<"Hello", "\n", "World">>

\* the result exposes token usage: an input or an output token count
ExposesTokenUsage(payload) ==
  \/ \E k \in {"input_tokens", "output_tokens"} :
        "meta" \in DOMAIN payload /\ k \in DOMAIN payload["meta"].v
  \/ \E k \in {"input_tokens", "output_tokens", "prompt_tokens", "completion_tokens"} :
        "usage" \in DOMAIN payload /\ k \in DOMAIN payload["usage"].v

\* at least one non-zero per-token rate is configured for the model
HasRate(model) ==
  /\ TOKEN_PRICING_USD_PER_TOKEN(model).listed
  /\ \/ TOKEN_PRICING_USD_PER_TOKEN(model).in # 0
     \/ TOKEN_PRICING_USD_PER_TOKEN(model).out # 0

\* the latency a payload carries for the time-based estimate
PayloadLatency(payload) ==
  IF "latency_ms" \in DOMAIN payload /\ payload["latency_ms"].v # 0
  THEN payload["latency_ms"]
  ELSE IF "backend_latency_ms" \in DOMAIN payload /\ payload["backend_latency_ms"].v # 0
  THEN payload["backend_latency_ms"]
  ELSE IF "meta" \in DOMAIN payload /\ "latency_ms" \in DOMAIN payload["meta"].v
  THEN payload["meta"].v["latency_ms"]
  ELSE PyNone

\* the record is the time-based estimate for the latency of the payload, to
\* the millionth of a dollar
IsTimeEstimate(billing, payload) ==
  /\ billing.v["basis"] = PyStr(<<"latency_ms">>)
  /\ PayloadLatency(payload) # PyNone =>
        billing.v["cost_usd"] =
          PyFloat(RoundDiv(PayloadLatency(payload).v, MS_PER_HOUR \div CPU_PER_HOUR_USD))
  /\ (PayloadLatency(payload) = PyInt(MS_PER_HOUR)) =>
        billing.v["cost_usd"] = PyFloat(CPU_PER_HOUR_USD)

\* C24: build_billing returns an embedded billing record unchanged;
\* otherwise it returns a token-based record only when the result exposes
\* token usage and at least one non-zero per-token rate is configured for
\* the engine, and in every other case the time-based estimate
\* cost_usd = latency_ms / 1000 / 3600 * hourly rate (0.05 for 3600000 ms
\* at the rate 0.05).
C24_BillingTokenOrTime ==
  billOut.status = "built" =>
     IF "billing" \in DOMAIN billIn.payload
     THEN billOut.billing = billIn.payload["billing"]
     ELSE IF ExposesTokenUsage(billIn.payload) /\ HasRate(billIn.model)
     THEN billOut.billing.v["basis"] = PyStr(<<"tokens">>)
     ELSE IsTimeEstimate(billOut.billing, billIn.payload)

\* ------------------------------------------------------------------------
\* Retries of the remote-API adapters
\* ------------------------------------------------------------------------

Calls == Len(retry.outcomes)

TransientFailures == {"timeout", "http_503"}

\* every wait is a multiple of the first one: first, 2 * first, 3 * first, ...
LinearBackoff(sleeps) ==
  \A k \in 1..Len(sleeps) : sleeps[k] = k * sleeps[1]

\* run() raised because its calls failed, all of them transiently
RaisedOnTransient ==
  /\ retry.pc = "raised"
  /\ retry.outcomes # <<>>
  /\ \A k \in 1..Calls : retry.outcomes[k] \in TransientFailures

\* run() raised because it rejects its input
RaisedOnInput == retry.pc = "raised" /\ retry.error.type = "ValueError"

\* C25: every remote-API adapter (gemini3, gemini3pro, mistral, glm-ocr)
\* retries a transient failure of its call a fixed number of times with
\* linearly increasing waits and raises only after the retries are used up,
\* with an error that carries the last failure and the elapsed time; an input
\* it rejects is raised at once, before any call and any wait
C25_RemoteAdaptersRetry ==
  /\ RaisedOnTransient =>
       /\ Calls = retry.max_retries + 1
       /\ Len(retry.sleeps) >= Calls - 1
       /\ LinearBackoff(retry.sleeps)
       /\ retry.error.cause = retry.outcomes[Calls]
       /\ retry.error.elapsed
  /\ RaisedOnInput => Calls = 0 /\ retry.sleeps = <<>>

\* the same statement for Gemini3Adapter alone
C25_Gemini3Retries == retry.engine = "gemini3" => C25_RemoteAdaptersRetry

\* the error of a single-call adapter after one transient failure
C25_SingleCallFails ==
  /\ retry.engine = "mistral"
  /\ retry.max_retries = MaxRetries
  /\ RaisedOnTransient
  /\ Calls = 1

\* C26: Gemini3Adapter.run makes at most max_retries + 1 HTTP attempts and
\* none after a successful one, waits 0.6 * k seconds after the k-th failed
\* attempt but not after the last one (attempt max_retries + 1), and raises
\* a RuntimeError that carries the last error
C26_Gemini3BoundedRetry ==
  retry.engine = "gemini3" =>
    /\ Calls <= retry.max_retries + 1
    /\ \A k \in 1..(Calls - 1) : retry.outcomes[k] # "ok"
    /\ \A k \in 1..Len(retry.sleeps) :
         /\ retry.sleeps[k] = Backoff(0) * k
         /\ retry.outcomes[k] # "ok"
         /\ k <= retry.max_retries
    /\ retry.pc \in {"request", "returned"} =>
         Len(retry.sleeps) = Len(SelectSeq(retry.outcomes, LAMBDA o : o # "ok"))
    /\ (retry.pc = "raised" /\ ~RaisedOnInput) =>
         /\ retry.error.type = "RuntimeError"
         /\ retry.error.cause = retry.outcomes[Calls]

\* the same statement without the clause that the last failed attempt is not
\* followed by a wait
C26_Gemini3WaitsAfterEveryFailure ==
  retry.engine = "gemini3" =>
    /\ Calls <= retry.max_retries + 1
    /\ \A k \in 1..(Calls - 1) : retry.outcomes[k] # "ok"
    /\ \A k \in 1..Len(retry.sleeps) :
         /\ retry.sleeps[k] = Backoff(0) * k
         /\ retry.outcomes[k] # "ok"
    /\ retry.pc \in {"request", "returned"} =>
         Len(retry.sleeps) = Len(SelectSeq(retry.outcomes, LAMBDA o : o # "ok"))
    /\ retry.pc \in {"exhausted", "raised"} /\ ~RaisedOnInput =>
         Len(retry.sleeps) = retry.max_retries + 1
    /\ (retry.pc = "raised" /\ ~RaisedOnInput) =>
         /\ retry.error.type = "RuntimeError"
         /\ retry.error.cause = retry.outcomes[Calls]

\* run() of gemini3 ends, with a result or an exception
C26_Gemini3Terminates ==
  <>(retry.engine = "gemini3" => retry.pc \in {"returned", "raised"})

\* all max_retries + 1 attempts failed and the error was raised
C26_RetriesExhausted ==
  /\ retry.engine = "gemini3"
  /\ retry.max_retries = MaxRetries
  /\ retry.pc = "raised"
  /\ Calls = MaxRetries + 1

\* ------------------------------------------------------------------------
\* Cell assignment and column centres
\* ------------------------------------------------------------------------

\* the distance of centre xc from the centre of column j
ColumnDistance(cols, xc, j) == Abs(cols[j] - xc)

\* column j is a nearest column of xc and no column left of it is as near
IsNearestLeftmost(cols, xc, j) ==
  /\ \A k \in 1..Len(cols) : ColumnDistance(cols, xc, j) <= ColumnDistance(cols, xc, k)
  /\ \A k \in 1..(j - 1) : ColumnDistance(cols, xc, k) # ColumnDistance(cols, xc, j)

\* the tokens of a row that belong in column j, in the order of the row
TokensOfCell(row, cols, scale, j) ==
  SelectSeq(row, LAMBDA t : IsNearestLeftmost(cols, XCentre(t, scale), j))

\* their texts joined by single spaces
JoinedTexts(toks) == join(<<" ">>, [i \in 1..Len(toks) |-> toks[i].text])

\* xc is as near to two different columns
IsTie(cols, xc) ==
  \E j, k \in 1..Len(cols) :
    /\ j < k
    /\ IsNearestLeftmost(cols, xc, j)
    /\ ColumnDistance(cols, xc, j) = ColumnDistance(cols, xc, k)

\* C27: each token is placed in the cell of the column whose centre is nearest
\* to its horizontal centre, the leftmost one on a tie; the texts of a cell are
\* joined by single spaces in the order of x1 from left to right; there are
\* never more than 8 columns, and a token right of the 8th centre is placed in
\* the nearest of the columns kept
C27_NearestColumnCells ==
  "grid" \in mdOut.done =>
     /\ Len(mdOut.cols) <= 8
     /\ Len(mdOut.grid) = Len(mdOut.rows)
     /\ \A r \in 1..Len(mdOut.rows) :
          /\ Len(mdOut.grid[r]) = Len(mdOut.cols)
          /\ \A i \in 1..(Len(mdOut.rows[r]) - 1) :
               mdOut.rows[r][i].x1 <= mdOut.rows[r][i + 1].x1
          /\ \A j \in 1..Len(mdOut.cols) :
               mdOut.grid[r][j] =
                 JoinedTexts(TokensOfCell(mdOut.rows[r], mdOut.cols, XScale(mdOut.rows), j))

\* C27 witness: a token as near to the first as to the second column has been
\* placed in the first, in a cell it shares with another token
C27_Witness ==
  /\ "grid" \in mdOut.done
  /\ \E r \in 1..Len(mdOut.rows) :
       /\ \E i \in 1..Len(mdOut.rows[r]) :
            IsTie(mdOut.cols, XCentre(mdOut.rows[r][i], XScale(mdOut.rows)))
       /\ Len(TokensOfCell(mdOut.rows[r], mdOut.cols, XScale(mdOut.rows), 1)) = 2
       /\ mdOut.grid[r][1] = <<"No", " ", "Item">>

\* C27 witness: a token right of the 8th centre has been placed in column 8
C27_WitnessNinthColumn ==
  /\ "grid" \in mdOut.done
  /\ Len(mdOut.cols) = 8
  /\ \E r \in 1..Len(mdOut.rows) :
       /\ \E i \in 1..Len(mdOut.rows[r]) :
            XCentre(mdOut.rows[r][i], XScale(mdOut.rows)) > mdOut.cols[8] + COL_SEP * XScale(mdOut.rows)
       /\ mdOut.grid[r][8] = <<"v", " ", "v">>

\* the horizontal centres of the tokens, times the scale of the centres
TokenCentres == {XCentre(mdIn.tokens[i], XScale(mdOut.rows)) : i \in 1..Len(mdIn.tokens)}

\* C28: for a non-empty list of tokens the column centres of _infer_columns
\* are strictly increasing, two adjacent centres are more than 35 apart, and
\* every centre lies between the smallest and the largest horizontal centre
\* of a token
C28_CentresApart ==
  ("cols" \in mdOut.done /\ mdIn.tokens # <<>>) =>
     /\ mdOut.cols # <<>>
     /\ \A k \in 1..(Len(mdOut.cols) - 1) :
          mdOut.cols[k + 1] - mdOut.cols[k] > COL_SEP * XScale(mdOut.rows)
     /\ \A k \in 1..Len(mdOut.cols) :
          /\ \E x \in TokenCentres : x <= mdOut.cols[k]
          /\ \E x \in TokenCentres : mdOut.cols[k] <= x

\* C28 witness: two columns, one of them with a centre that is the mean of
\* several tokens and the centre of none
C28_Witness ==
  /\ "cols" \in mdOut.done
  /\ Len(mdOut.cols) >= 2
  /\ \E k \in 1..Len(mdOut.cols) : mdOut.cols[k] \notin TokenCentres

\* ------------------------------------------------------------------------
\* The billing record of a dispatched result
\* ------------------------------------------------------------------------

\* the latency the time-based cost is to be computed from: the adapter's own
\* latency_ms when it reports one that is not zero, else the dispatcher's
BilledLatency(entry) ==
  IF Truthy(Get(entry, "latency_ms")) THEN entry["latency_ms"]
  ELSE entry["backend_latency_ms"]

\* the billing record holds a number as cost_usd, computed from the latency
CostFromLatency(entry) ==
  /\ "billing" \in DOMAIN entry
  /\ IsNumber(entry["billing"].v["cost_usd"])
  /\ entry["billing"].v["cost_usd"] =
       estimate_cost_time_usd(BilledLatency(entry), CPU_PER_HOUR_USD)

\* C30: every successful result of run_benchmark and run_ocr carries a billing
\* record whose cost_usd is a number, never null, for every measured latency,
\* 0 ms included, computed from the adapter's non-zero latency_ms or else from
\* backend_latency_ms; the entry of a failed engine carries no billing
C30_CostIsNumber ==
  /\ NormSucceeded => CostFromLatency(normOut.entry)
  /\ (normOut.status = "entry" /\ normIn.out = "error") =>
       "billing" \notin DOMAIN normOut.entry

\* the same statement for the results in which latency_ms or
\* backend_latency_ms is not zero
C30_CostIsNumberUnlessZero ==
  /\ (NormSucceeded /\ Truthy(BilledLatency(normOut.entry))) =>
       CostFromLatency(normOut.entry)
  /\ (normOut.status = "entry" /\ normIn.out = "error") =>
       "billing" \notin DOMAIN normOut.entry

\* a result measured at 0 ms whose billing record has no cost
C30_NullCostAtZero ==
  /\ NormSucceeded
  /\ normIn.backend_latency_ms = 0
  /\ normOut.entry["billing"].v["cost_usd"] = PyNone

====
